---- MODULE Spec2Model ----
(***************************************************************************)
(* The CSV loader and query tools of server_db.py (SQLite mode) and the    *)
(* loader of server_pandas.py (pandas mode).                               *)
(*                                                                         *)
(* A string is a sequence of one-character strings, so that the digit      *)
(* tests, the numeric parse and the SELECT check are computed character    *)
(* by character, as the code computes them.                                *)
(***************************************************************************)
EXTENDS Integers, Sequences, FiniteSets, TLC

\* ------------------------------------------------------------------ bounds
\* Longest raw field of a generated CSV column.
MaxStrLen == 2
\* Most rows of a generated CSV column.
MaxSeries == 2

\* ---------------------------------------------------------------- strings
\* The characters a generated field is written with: two digits (one of
\* them the zero) and the decimal point, which is also the non-digit.
Chars == {"0", "1", "."}

Strings == {<<>>} \cup UNION {[1..n -> Chars] : n \in 1..MaxStrLen}

\* str.isdigit over ASCII: every character a digit, and at least one.
DigitChars == {"0", "1", "2", "3", "4", "5", "6", "7", "8", "9"}

DigitVal(c) ==
    CASE c = "0" -> 0 [] c = "1" -> 1 [] c = "2" -> 2 [] c = "3" -> 3
      [] c = "4" -> 4 [] c = "5" -> 5 [] c = "6" -> 6 [] c = "7" -> 7
      [] c = "8" -> 8 [] c = "9" -> 9

isdigit(value) ==
    /\ Len(value) > 0
    /\ \A i \in 1..Len(value) : value[i] \in DigitChars

\* ------------------------------------------------------------------ cells
\* A cell of a data frame, of a table of the store, or of a query result.
Str(s)    == [t |-> "str", s |-> s, mant |-> 0, scale |-> 0]
\* The number mant / 10^scale, with scale as small as the value allows.
Num(m, k) == [t |-> "num", s |-> <<>>, mant |-> m, scale |-> k]
\* The missing-value marker: None / NaN in a frame, NULL in the store.
NaN       == [t |-> "nan", s |-> <<>>, mant |-> 0, scale |-> 0]

\* ------------------------------------------------------- pandas.to_numeric
RECURSIVE DigitsValue(_)
DigitsValue(ds) ==
    IF ds = <<>> THEN 0
    ELSE 10 * DigitsValue(SubSeq(ds, 1, Len(ds) - 1)) + DigitVal(ds[Len(ds)])

DotPositions(s) == {i \in 1..Len(s) : s[i] = "."}

\* Whether pandas parses the string as a number: digits with at most one
\* decimal point and at least one digit ("1.", ".1" parse, "." does not).
ParsesAsNumber(s) ==
    /\ \A i \in 1..Len(s) : s[i] \in DigitChars \cup {"."}
    /\ Cardinality(DotPositions(s)) <= 1
    /\ \E i \in 1..Len(s) : s[i] \in DigitChars

RECURSIVE Normalize(_, _)
Normalize(m, k) ==
    IF k > 0 /\ m % 10 = 0 THEN Normalize(m \div 10, k - 1) ELSE Num(m, k)

\* The value of a string that parses.
ParseNumber(s) ==
    LET dots == DotPositions(s)
        p    == IF dots = {} THEN Len(s) + 1 ELSE CHOOSE i \in dots : TRUE
        int  == SubSeq(s, 1, p - 1)
        frac == SubSeq(s, p + 1, Len(s))
    IN  Normalize(DigitsValue(int \o frac), Len(frac))

\* Written as an integer literal (int64 when every value is).
IsIntLiteral(s) == DotPositions(s) = {}

\* ------------------------------------------------- Column Type Classifier
RECURSIVE has_leading_zeros_from(_, _)
has_leading_zeros_from(series, i) ==
    IF i > Len(series) THEN FALSE
    ELSE LET value == series[i]
         IN  IF /\ value # <<>>
                /\ Len(value) > 1
                /\ isdigit(value)
                /\ value[1] = "0"
             THEN TRUE
             ELSE has_leading_zeros_from(series, i + 1)

\* A slip: the length test left out, so that a lone "0" counts.
RECURSIVE has_leading_zeros_lone_zero_from(_, _)
has_leading_zeros_lone_zero_from(series, i) ==
    IF i > Len(series) THEN FALSE
    ELSE IF isdigit(series[i]) /\ series[i][1] = "0" THEN TRUE
    ELSE has_leading_zeros_lone_zero_from(series, i + 1)

has_leading_zeros_lone_zero(series) == has_leading_zeros_lone_zero_from(series, 1)

has_leading_zeros(series) == has_leading_zeros_from(series, 1)

NonEmpty(series) == SelectSeq(series, LAMBDA v : v # <<>>)

\* A slip: the test for a column with no non-empty value left out.
can_convert_to_numeric_no_length_test(series) ==
    \A i \in 1..Len(NonEmpty(series)) : ParsesAsNumber(NonEmpty(series)[i])

\* pd.to_numeric(non_empty) raises unless every value parses; the bare
\* except turns the raise into False.
can_convert_to_numeric(series) ==
    LET non_empty == NonEmpty(series)
    IN  IF Len(non_empty) = 0 THEN FALSE
        ELSE \A i \in 1..Len(non_empty) : ParsesAsNumber(non_empty[i])

\* A slip: the two tests in the other order.
column_type_numeric_first(series) ==
    IF can_convert_to_numeric(series) THEN "NUMERIC"
    ELSE IF has_leading_zeros(series) THEN "TEXT"
    ELSE "TEXT"

column_type(series) ==
    IF has_leading_zeros(series) THEN "TEXT"
    ELSE IF can_convert_to_numeric(series) THEN "NUMERIC"
    ELSE "TEXT"

\* ------------------------------------------------------ Table Materializer
\* The CSV files of the scanned directory.  A file is a header and rows of
\* raw fields; parses = FALSE is a file pd.read_csv raises on.
CsvFile(parses, columns, rows) ==
    [parses |-> parses, columns |-> columns, rows |-> rows]

\* Column j of the frame read with dtype=str, keep_default_na=False and
\* fillna(''): the raw fields, unchanged.
SeriesOf(file, j) == [i \in 1..Len(file.rows) |-> file.rows[i][j]]

\* A column of a data frame or of a table: its name, its dtype or declared
\* type, and its cells.
Column(name, type, values) == [name |-> name, type |-> type, values |-> values]

\* A slip: replace('', None) read as "no value given", which fills an empty
\* string with the value of the row before it.
RECURSIVE padded(_, _)
padded(series, i) ==
    IF i = 0 THEN <<>>
    ELSE IF series[i] # <<>> THEN series[i]
    ELSE padded(series, i - 1)

to_numeric_coerce_pad(series) ==
    [i \in 1..Len(series) |->
        IF padded(series, i) # <<>> /\ ParsesAsNumber(padded(series, i))
        THEN ParseNumber(padded(series, i)) ELSE NaN]

\* pd.to_numeric(..., errors='coerce') after replace('', None).
to_numeric_coerce(series) ==
    [i \in 1..Len(series) |->
        IF series[i] # <<>> /\ ParsesAsNumber(series[i])
        THEN ParseNumber(series[i]) ELSE NaN]

\* The dtype pd.to_numeric gives: int64 when nothing is missing and every
\* value is an integer literal, float64 otherwise.
numeric_dtype(series) ==
    IF \A i \in 1..Len(series) :
           /\ series[i] # <<>>
           /\ ParsesAsNumber(series[i])
           /\ IsIntLiteral(series[i])
    THEN "int64" ELSE "float64"

\* A slip: the test of data_type left out, every column converted.
final_column_convert_all(name, series, data_type) ==
    Column(name, numeric_dtype(series), to_numeric_coerce(series))

\* One column of df_final.
final_column(name, series, data_type) ==
    IF data_type = "NUMERIC"
    THEN Column(name, numeric_dtype(series), to_numeric_coerce(series))
    ELSE Column(name, "object", [i \in 1..Len(series) |-> Str(series[i])])

\* column_types, a dict keyed by column name, listed in column order.
column_types(file) ==
    [j \in 1..Len(file.columns) |-> column_type(SeriesOf(file, j))]

df_final(file) ==
    [j \in 1..Len(file.columns) |->
        final_column(file.columns[j], SeriesOf(file, j), column_types(file)[j])]

\* ------------------------------------------------------------ letter case
LowerLetters == <<"a", "b", "c", "d", "e", "l", "o", "p", "r", "s", "t", "x">>
UpperLetters == <<"A", "B", "C", "D", "E", "L", "O", "P", "R", "S", "T", "X">>
LetterIxs == 1..Len(LowerLetters)

ToUpper(c) ==
    IF \E i \in LetterIxs : LowerLetters[i] = c
    THEN UpperLetters[CHOOSE i \in LetterIxs : LowerLetters[i] = c] ELSE c

ToLower(c) ==
    IF \E i \in LetterIxs : UpperLetters[i] = c
    THEN LowerLetters[CHOOSE i \in LetterIxs : UpperLetters[i] = c] ELSE c

UpperStr(s) == [i \in 1..Len(s) |-> ToUpper(s[i])]
LowerStr(s) == [i \in 1..Len(s) |-> ToLower(s[i])]

\* ------------------------------------------------------- the SQLite store
\* The store maps the lower-cased table name (SQLite compares identifiers
\* without regard to letter case) to the table.
Table(name, columns) == [name |-> name, columns |-> columns]

\* The storage type pandas declares for a dtype.
sqlite_type(dtype) ==
    CASE dtype = "int64" -> "INTEGER"
      [] dtype = "float64" -> "REAL"
      [] OTHER -> "TEXT"

\* What SQLite keeps of an inserted value under the column's affinity.
stored_value(type, cell) ==
    IF type \in {"INTEGER", "REAL"} /\ cell.t = "str" /\ cell.s # <<>>
       /\ ParsesAsNumber(cell.s)
    THEN ParseNumber(cell.s) ELSE cell

\* CREATE TABLE refuses two columns whose names differ only in case.
to_sql_fails(df) ==
    \E i, j \in 1..Len(df) :
        i # j /\ LowerStr(df[i].name) = LowerStr(df[j].name)

\* df_final.to_sql(table_name, conn, if_exists='replace', index=False)
to_sql(df, table_name) ==
    Table(table_name,
          [j \in 1..Len(df) |->
              LET type == sqlite_type(df[j].type)
              IN  Column(df[j].name, type,
                         [i \in 1..Len(df[j].values) |->
                             stored_value(type, df[j].values[i])])])

\* DROP TABLE IF EXISTS [table_name]
drop_table(store, table_name) ==
    [k \in DOMAIN store \ {LowerStr(table_name)} |-> store[k]]

put_table(store, table) ==
    [k \in DOMAIN store \cup {LowerStr(table.name)} |->
        IF k = LowerStr(table.name) THEN table ELSE store[k]]

NRows(columns) == IF Len(columns) = 0 THEN 0 ELSE Len(columns[1].values)
RowOf(columns, i) == [j \in 1..Len(columns) |-> columns[j].values[i]]
RowsOf(columns) == [i \in 1..NRows(columns) |-> RowOf(columns, i)]

\* A slip: the cap left out.
head_uncapped(rows, n) == rows

head(rows, n) == SubSeq(rows, 1, IF Len(rows) < n THEN Len(rows) ELSE n)

\* --------------------------------------------------------- Schema Recorder
SampleRows == 3

\* One line of the column details: PRAGMA table_info's name and type, and
\* the kind looked up in column_types by the column's name.
\* A slip: the lookup misses its key and falls back on the default.
column_info_default_kind(table, file) ==
    [j \in 1..Len(table.columns) |->
        [name |-> table.columns[j].name,
         kind |-> "TEXT",
         sqlite_type |-> table.columns[j].type]]

column_info(table, file) ==
    [j \in 1..Len(table.columns) |->
        LET same == {c \in 1..Len(file.columns) :
                        file.columns[c] = table.columns[j].name}
        IN  [name |-> table.columns[j].name,
             kind |-> IF same # {}
                      THEN column_type(SeriesOf(file, CHOOSE c \in same : TRUE))
                      ELSE "TEXT",
             sqlite_type |-> table.columns[j].type]]

\* The block appended to table_info for one table.
table_block(table_name, table, df, file) ==
    [table |-> table_name,
     ncols |-> Len(table.columns),
     columns |-> column_info(table, file),
     sample |-> head(RowsOf(df), SampleRows)]

\* ------------------------------------------------------ the artifact's text
\* A text is a sequence of lines, a line a sequence of characters.  The
\* fixed phrases of the format, which hold no blank, stand as one
\* character each, and so does the mark that opens a header line: the
\* expressions of the two tools look for nothing else.  The phrases are
\* written here in ASCII.
\* "# テーブル: "
HeaderMark == "# TABLE: "
\* "カラム数:"
ColumnCountLabel == "COLUMNS:"
\* "カラム詳細:"
ColumnDetailsLabel == "COLUMN-DETAILS:"
\* "数値型"
NumericLabel == "NUMERIC-TYPE"
\* "文字列型"
TextLabel == "TEXT-TYPE"
\* "先頭0保持"
KeepsZerosLabel == "KEEPS-LEADING-0"
\* "サンプルデータ（最初の3行）:"
SampleLabel == "SAMPLE-DATA(FIRST-3-ROWS):"
\* "行"
RowLabel == "ROW"

DigitSeq == <<"0", "1", "2", "3", "4", "5", "6", "7", "8", "9">>

\* str(n) of a natural number.
RECURSIVE format_int(_)
format_int(n) ==
    IF n < 10 THEN <<DigitSeq[n + 1]>>
    ELSE format_int(n \div 10) \o <<DigitSeq[(n % 10) + 1]>>

\* The k decimals of m / 10^k.
RECURSIVE format_decimals(_, _)
format_decimals(m, k) ==
    IF k = 0 THEN <<>>
    ELSE format_decimals(m \div 10, k - 1) \o <<DigitSeq[(m % 10) + 1]>>

\* f"{val}" of a value of a row of iterrows(): a string as it is, the
\* missing value as nan, an integer in digits, a float with its decimals
\* (and ".0" when it has none).
format_value(cell, as_float) ==
    CASE cell.t = "str" -> cell.s
      [] cell.t = "nan" -> <<"n", "a", "n">>
      [] OTHER ->
           IF cell.scale = 0
           THEN format_int(cell.mant)
                    \o (IF as_float THEN <<".", "0">> ELSE <<>>)
           ELSE format_int(cell.mant \div (10 ^ cell.scale)) \o <<".">>
                    \o format_decimals(cell.mant % (10 ^ cell.scale), cell.scale)

\* iterrows() makes a Series of each row: the values of a frame of
\* numeric columns only are all floats once one column is float64; in
\* any other frame each value keeps the type of its column.
row_value_is_float(block, j) ==
    \/ block.columns[j].sqlite_type = "REAL"
    \/ /\ \A c \in 1..Len(block.columns) : block.columns[c].sqlite_type # "TEXT"
       /\ \E c \in 1..Len(block.columns) : block.columns[c].sqlite_type = "REAL"

\* f"- {col_name}: {description}"
column_line(line) ==
    <<"-", " ">> \o line.name \o <<":", " ">>
        \o (IF line.kind = "NUMERIC"
            THEN <<NumericLabel, " ", "(SQLite:", " ", line.sqlite_type, ")">>
            ELSE <<TextLabel, " ", "(SQLite:", " ", line.sqlite_type, ")",
                   " ", "-", " ", KeepsZerosLabel>>)

\* " | ".join([f"{col}: {val}" for col, val in row.items()]), from column j.
RECURSIVE row_data(_, _, _)
row_data(block, i, j) ==
    IF j > Len(block.columns) THEN <<>>
    ELSE (IF j > 1 THEN <<" ", "|", " ">> ELSE <<>>)
            \o block.columns[j].name \o <<":", " ">>
            \o format_value(block.sample[i][j], row_value_is_float(block, j))
            \o row_data(block, i, j + 1)

\* f"  行{idx + 1}: {row_data}"
row_line(block, i) ==
    <<" ", " ", RowLabel>> \o format_int(i) \o <<":", " ">> \o row_data(block, i, 1)

\* A slip: table_info.extend(column_info) left out.
block_lines_without_columns(block) ==
    << <<HeaderMark>> \o block.table,
       <<ColumnCountLabel, " ">> \o format_int(block.ncols),
       <<ColumnDetailsLabel>> >>
    \o << <<SampleLabel>> >>
    \o [i \in 1..Len(block.sample) |-> row_line(block, i)]
    \o << <<>>, <<>> >>

\* The lines one table adds to table_info, as "\n".join writes them: the
\* closing "\n" makes two empty lines.
block_lines(block) ==
    << <<HeaderMark>> \o block.table,
       <<ColumnCountLabel, " ">> \o format_int(block.ncols),
       <<ColumnDetailsLabel>> >>
    \o [j \in 1..Len(block.columns) |-> column_line(block.columns[j])]
    \o << <<SampleLabel>> >>
    \o [i \in 1..Len(block.sample) |-> row_line(block, i)]
    \o << <<>>, <<>> >>

\* The content of table_info.txt.
RECURSIVE table_info_text(_)
table_info_text(blocks) ==
    IF blocks = <<>> THEN <<>>
    ELSE block_lines(blocks[1]) \o table_info_text(Tail(blocks))

\* ---------------------------------------------------------- Query Executor
\* A query is the text up to the end of its first word (lead), and what
\* the rest of the statement names: FROM t ("star"), FROM t, t ("cross"),
\* or the table of a statement that is not a retrieval ("stmt").
Query(lead, form, table) == [lead |-> lead, form |-> form, table |-> table]

\* The first word is followed by a blank.
sql_text(q) == q.lead \o <<" ">>

Whitespace == {" ", "\t", "\n"}
KeywordSelect == <<"S", "E", "L", "E", "C", "T">>
KeywordDrop   == <<"D", "R", "O", "P">>
KeywordDelete == <<"D", "E", "L", "E", "T", "E">>

RECURSIVE skip_whitespace(_)
skip_whitespace(text) ==
    IF text # <<>> /\ text[1] \in Whitespace
    THEN skip_whitespace(Tail(text)) ELSE text

\* A slip: the test inverted (the "not" left out).
re_match_select_inverted(text) ==
    LET s == skip_whitespace(text)
    IN  ~(/\ Len(s) >= Len(KeywordSelect)
          /\ \A i \in 1..Len(KeywordSelect) : ToUpper(s[i]) = KeywordSelect[i])

\* re.match(r'^\s*SELECT', sql_query, re.IGNORECASE)
re_match_select(text) ==
    LET s == skip_whitespace(text)
    IN  /\ Len(s) >= Len(KeywordSelect)
        /\ \A i \in 1..Len(KeywordSelect) : ToUpper(s[i]) = KeywordSelect[i]

\* The statement's first token as SQLite reads it: the longest run of
\* non-blank characters after the leading blanks, in upper case.
RECURSIVE first_word(_)
first_word(s) ==
    IF s = <<>> \/ s[1] \in Whitespace THEN <<>>
    ELSE <<s[1]>> \o first_word(Tail(s))

leading_keyword(text) == UpperStr(first_word(skip_whitespace(text)))

\* The rows of FROM t, t: every row of t beside every row of t.
cross_rows(rows) ==
    LET n == Len(rows)
    IN  [k \in 1..(n * n) |-> rows[((k - 1) \div n) + 1] \o rows[((k - 1) % n) + 1]]

\* The messages of the errors a statement can end in.  Those of SQLite
\* and of Python are ASCII already.
NoSuchTable == "no such table: "
SyntaxError == ": syntax error"
NotIterable == "'NoneType' object is not iterable"
UnableToOpen == "unable to open database file"
ExecutionFailed == "Execution failed on sql "

\* What the error under a failed statement says: the parser speaks first,
\* then the name lookup; a statement that ran and gave no result set
\* leaves pandas with nothing to iterate.
sqlite_message(store, q) ==
    LET kw == leading_keyword(sql_text(q))
    IN  IF kw \notin {KeywordSelect, KeywordDrop, KeywordDelete}
        THEN <<"near ">> \o kw \o <<SyntaxError>>
        ELSE IF LowerStr(q.table) \notin DOMAIN store
        THEN <<NoSuchTable>> \o q.table
        ELSE <<NotIterable>>

\* str(e) of the DatabaseError pandas raises: the statement, then the
\* message of the error under it; a TypeError is not wrapped.
execution_failed(q, message) ==
    IF message = <<NotIterable>> THEN message
    ELSE <<ExecutionFailed>> \o sql_text(q) \o <<": ">> \o message

\* pd.read_sql_query(sql_query, conn): the store after the statement, and
\* the frame read, or the failure.
read_sql_query(store, q) ==
    LET kw  == leading_keyword(sql_text(q))
        key == LowerStr(q.table)
        failed == [ok |-> FALSE, store |-> store, rows |-> <<>>, ncols |-> 0,
                   message |-> execution_failed(q, sqlite_message(store, q))]
    IN  IF key \notin DOMAIN store THEN failed
        ELSE IF kw = KeywordSelect
        THEN LET cols == store[key].columns
                 rows == RowsOf(cols)
             IN  IF q.form = "cross"
                 THEN [ok |-> TRUE, store |-> store, rows |-> cross_rows(rows),
                       ncols |-> 2 * Len(cols), message |-> <<>>]
                 ELSE [ok |-> TRUE, store |-> store, rows |-> rows,
                       ncols |-> Len(cols), message |-> <<>>]
        ELSE IF kw = KeywordDrop
        \* the table is dropped, and no frame can be built of no result
        THEN [failed EXCEPT !.store = drop_table(store, q.table)]
        \* the rows deleted are never committed
        ELSE IF kw = KeywordDelete THEN failed
        \* any other word is a syntax error
        ELSE failed

RowCap == 10

\* "エラー: SQLクエリの実行に失敗しました - "
QueryErrorLabel == "ERROR: SQL-QUERY-FAILED - "

\* A slip: the message of the error left out.
query_error_label_only(message) == <<QueryErrorLabel>>

\* f"エラー: SQLクエリの実行に失敗しました - {str(e)}"
query_error(message) == <<QueryErrorLabel>> \o message

\* ----------------------------------------------------------- pandas mode
\* One column of pd.read_csv(csv_file) with the default type inference.
inferred_column(name, series) ==
    IF Len(series) = 0 THEN Column(name, "object", <<>>)
    ELSE IF \A i \in 1..Len(series) :
                series[i] = <<>> \/ ParsesAsNumber(series[i])
    THEN Column(name, numeric_dtype(series), to_numeric_coerce(series))
    ELSE Column(name, "object",
                [i \in 1..Len(series) |->
                    IF series[i] = <<>> THEN NaN ELSE Str(series[i])])

read_csv(file) ==
    [j \in 1..Len(file.columns) |->
        inferred_column(file.columns[j], SeriesOf(file, j))]

\* ------------------------------------------------------- the directories
FileNames == {<<"a">>, <<"A">>, <<"b">>}

\* A file pd.read_csv raises on (empty, undecodable, ragged).
BadFile == CsvFile(FALSE, <<>>, <<>>)
\* Two columns whose names differ only in case: to_sql raises.
DupColsFile == CsvFile(TRUE, << <<"x">>, <<"X">> >>, << << <<"1">>, <<"1">> >> >>)
\* id keeps its leading zero, n has a missing value.
CodesFile ==
    CsvFile(TRUE, << <<"i", "d">>, <<"n">> >>,
            << << <<"0", "1">>, <<"1">> >>,
               << <<"1", "0">>, <<>> >> >>)
\* Four integers.
FourFile ==
    CsvFile(TRUE, << <<"n">> >>,
            << << <<"1">> >>, << <<"0">> >>, << <<"1", "0">> >>, << <<"1", "1">> >> >>)

ServerFiles == {BadFile, DupColsFile, CodesFile, FourFile}

ServerDirs == UNION {[D -> ServerFiles] : D \in SUBSET FileNames}

\* Every one-column file over the generated strings.
AllSeries == {<<>>} \cup UNION {[1..n -> Strings] : n \in 1..MaxSeries}

ColumnFile(series) ==
    CsvFile(TRUE, << <<"x">> >>, [i \in 1..Len(series) |-> <<series[i]>>])

GeneratedFiles == {BadFile, DupColsFile} \cup {ColumnFile(series) : series \in AllSeries}

ColumnDirs == {[D \in {<<"b">>} |-> f] : f \in GeneratedFiles}

\* The directories of a server that is started again and again.
RestartFiles == {BadFile, DupColsFile, CodesFile}

RestartDirs == UNION {[D -> RestartFiles] : D \in SUBSET FileNames}

\* The directories of a server asked for schemas: a name that is the
\* beginning of another.
SchemaFileNames == {<<"a">>, <<"a", "b">>, <<"b">>}

\* A text column with the value "# テーブル: z".
MarkFile == CsvFile(TRUE, << <<"m">> >>, << << <<HeaderMark, "z">> >> >>)

SchemaFiles == {BadFile, CodesFile, FourFile, MarkFile}

SchemaDirs == UNION {[D -> SchemaFiles] : D \in SUBSET SchemaFileNames}

\* The names asked for: the files', the empty string, a name with a
\* regular expression character, a name of no file.
SchemaNames == SchemaFileNames \cup {<<>>, <<".">>, <<"z">>}

\* The directories, names and queries of a server on a file system that
\* refuses now this, now that.
FaultDirs == UNION {[D -> {BadFile, CodesFile}] : D \in SUBSET {<<"a">>, <<"b">>}}

FaultNames == {<<"a">>, <<"z">>}

FaultQueries ==
    {Query(<<"s", "e", "l", "e", "c", "t">>, "star", t) : t \in {<<"a">>, <<"z">>}}
    \cup {Query(<<"D", "R", "O", "P">>, "stmt", <<"a">>)}

\* The directories, names, queries and column lists of the pandas-mode
\* server.  Eleven rows are one more than the rows the tool says it shows.
ElevenFile ==
    CsvFile(TRUE, << <<"n">> >>,
            << << <<"0">> >>, << <<"1">> >>, << <<"2">> >>, << <<"3">> >>,
               << <<"4">> >>, << <<"5">> >>, << <<"6">> >>, << <<"7">> >>,
               << <<"8">> >>, << <<"9">> >>, << <<"1", "0">> >> >>)

FrameDirs ==
    UNION {[D -> {BadFile, CodesFile, ElevenFile}] : D \in SUBSET {<<"a">>, <<"b">>}}

FrameNames == {<<"a">>, <<"b">>, <<"z">>}

\* Every row, the first row, no row; an expression that does not parse.
FrameQueries == {"index >= 0", "index < 1", "index < 0", "index >="}

ColumnLists == {<<>>, << <<"n">> >>, << <<"i", "d">>, <<"n">> >>, << <<"z">> >>}

\* The queries put to the server.
SelectLeads == {<<"S", "E", "L", "E", "C", "T">>,
                <<"s", "e", "l", "e", "c", "t">>,
                <<" ", "S", "e", "L", "e", "C", "t">>}
OtherLeads  == {<<"S", "E", "L", "E", "C", "T", "E", "D">>,
                <<"S", "E", "L", "E", "C">>,
                <<"D", "R", "O", "P">>,
                <<" ", "d", "e", "l", "e", "t", "e">>}
QueryTables == {<<"a">>, <<"b">>}

Queries ==
    {Query(l, f, t) : l \in SelectLeads, f \in {"star", "cross"}, t \in QueryTables}
    \cup {Query(l, "stmt", t) : l \in OtherLeads, t \in QueryTables}

ColumnQueries == {Query(<<"s", "e", "l", "e", "c", "t">>, "star", <<"b">>)}

SchemaArgs == FileNames \cup {<<>>, <<"z">>}

\* ------------------------------------------------------------------ state
VARIABLES
    mode,             \* main.py --mode: "db" or "pandas"
    pc,               \* "boot", "loading", "serving"; "crashed" after a
                      \* traceback has ended the process
    csv_dir,          \* ./csv: file base name -> CSV file
    csv_files,        \* the files of the scan still to process
    db,               \* ./rssystem.db: lower-cased table name -> table
    table_info,       \* the blocks gathered by the load in progress
    created_tables,   \* the names gathered by the load in progress
    table_info_file,  \* ./table_info.txt
    dfs,              \* pandas mode: base name -> data frame
    response,         \* what the last tool call returned
    scan,             \* the files of the scan as glob.glob listed them
    previous,         \* the outcome of the process before this one, when
                      \* it ran over the same directory contents
    faults,           \* what the file system refuses at the moment
    call              \* the tool call of an adapter (kokkai_search.py,
                      \* niconico_serach.py, refdb-progressive-search.py):
                      \* its arguments, the requests it has sent, its result

vars == <<mode, pc, csv_dir, csv_files, db, table_info, created_tables,
          table_info_file, dfs, response, scan, previous, faults, call>>

\* The variables of the two CSV servers.
server_vars == <<mode, pc, csv_dir, csv_files, db, table_info, created_tables,
                 table_info_file, dfs, response, scan, previous, faults>>

\* ./rssystem.db cannot be opened; ./table_info.txt cannot be written;
\* ./table_info.txt cannot be read.
Faults == {"db_unavailable", "table_info_unwritable", "table_info_unreadable"}

EmptyMap == [k \in {} |-> k]

NoQuery == Query(<<>>, "none", <<>>)

Response(op, table, query, kind, attempts, total_rows, total_cols, rows, names, blocks) ==
    [op |-> op, table |-> table, query |-> query, kind |-> kind,
     attempts |-> attempts, total_rows |-> total_rows, total_cols |-> total_cols,
     rows |-> rows, names |-> names, blocks |-> blocks]

NoResponse == Response("none", <<>>, NoQuery, "none", 0, 0, 0, <<>>, <<>>, <<>>)

NoArtifact == [exists |-> FALSE, blocks |-> <<>>]

Outcome(known, files, store, artifact) ==
    [known |-> known, scan |-> files, db |-> store, table_info_file |-> artifact]

NoOutcome == Outcome(FALSE, <<>>, EmptyMap, NoArtifact)

Perms(D) ==
    {f \in [1..Cardinality(D) -> D] :
        \A i, j \in 1..Cardinality(D) : i # j => f[i] # f[j]}

\* No tool of an adapter has been called.
NoCall == [tool |-> "none", done |-> FALSE]

\* A tool called with its arguments, before its first statement.
Called(tool, args) == [tool |-> tool, args |-> args, done |-> FALSE]

ServerInit(modes, dirs, fault_sets) ==
    /\ mode \in modes
    /\ csv_dir \in dirs
    /\ pc = "boot"
    /\ csv_files = <<>>
    /\ db = EmptyMap
    /\ table_info = <<>>
    /\ created_tables = <<>>
    /\ table_info_file = NoArtifact
    /\ dfs = EmptyMap
    /\ response = NoResponse
    /\ scan = <<>>
    /\ previous = NoOutcome
    /\ faults \in fault_sets

InitOf(modes, dirs, fault_sets) ==
    /\ ServerInit(modes, dirs, fault_sets)
    /\ call = NoCall

\* A file system that refuses nothing.
InitWith(modes, dirs) == InitOf(modes, dirs, {{}})

Init == InitWith({"db", "pandas"}, ServerDirs)

InitColumn == InitWith({"db"}, ColumnDirs)

\* ------------------------------------------------- create_tables_from_csv
\* glob.glob lists the directory in no particular order.
start_db ==
    /\ pc = "boot" /\ mode = "db"
    /\ "db_unavailable" \notin faults
    /\ \E order \in Perms(DOMAIN csv_dir) : csv_files' = order /\ scan' = order
    /\ table_info' = <<>>
    /\ created_tables' = <<>>
    /\ pc' = "loading"
    /\ UNCHANGED <<call, mode, csv_dir, db, table_info_file, dfs, response, previous,
                   faults>>

\* sqlite3.connect(DB_PATH) raises, outside every try: the traceback ends
\* the process at its import-time call of the load.
connect_fails ==
    /\ pc = "boot" /\ mode = "db"
    /\ "db_unavailable" \in faults
    /\ \E order \in Perms(DOMAIN csv_dir) : csv_files' = order /\ scan' = order
    /\ created_tables' = <<>>
    /\ pc' = "crashed"
    /\ UNCHANGED <<call, mode, csv_dir, db, table_info, table_info_file, dfs, response,
                   previous, faults>>

\* A slip: the try around the loop instead of inside it.
files_after_error_abort(files) == <<>>

\* The files left to the loop after the except clause has logged a failure.
files_after_error(files) == Tail(files)

\* One turn of the loop over csv_files.
load_csv_file ==
    /\ pc = "loading" /\ mode = "db" /\ csv_files # <<>>
    /\ \E table_name \in {csv_files[1]} :
       \E file \in {csv_dir[table_name]} :
       \E df \in {df_final(file)} :
           \/ \* pd.read_csv raises: nothing has touched the store
              /\ ~file.parses
              /\ csv_files' = files_after_error(csv_files)
              /\ UNCHANGED <<db, table_info, created_tables>>
           \/ \* to_sql raises, after DROP TABLE IF EXISTS has run
              /\ file.parses
              /\ to_sql_fails(df)
              /\ db' = drop_table(db, table_name)
              /\ csv_files' = files_after_error(csv_files)
              /\ UNCHANGED <<table_info, created_tables>>
           \/ /\ file.parses
              /\ ~to_sql_fails(df)
              /\ \E store \in {put_table(drop_table(db, table_name),
                                         to_sql(df, table_name))} :
                 \E table \in {store[LowerStr(table_name)]} :
                    /\ db' = store
                    /\ table_info' =
                         Append(table_info,
                                table_block(table_name, table, df, file))
              /\ created_tables' = Append(created_tables, table_name)
              /\ csv_files' = Tail(csv_files)
    /\ UNCHANGED <<call, mode, pc, csv_dir, table_info_file, dfs, response, scan,
                   previous, faults>>

\* A slip: the artifact opened for appending.
write_table_info_append(file, blocks) ==
    [exists |-> TRUE, blocks |-> file.blocks \o blocks]

\* A slip: the file left as it is when the load has made no table.
write_table_info_unless_empty(file, blocks) ==
    IF blocks = <<>> THEN [exists |-> TRUE, blocks |-> file.blocks]
    ELSE [exists |-> TRUE, blocks |-> blocks]

\* with open(TABLE_INFO_PATH, 'w') as f: f.write("\n".join(table_info))
write_table_info(file, blocks) == [exists |-> TRUE, blocks |-> blocks]

\* A slip: the write and the return indented into the loop.
finish_load_in_loop ==
    /\ pc = "loading" /\ mode = "db"
    /\ table_info_file' = write_table_info(table_info_file, table_info)
    /\ pc' = "serving"
    /\ UNCHANGED <<call, mode, csv_dir, csv_files, db, table_info, created_tables,
                   dfs, response, scan, previous, faults>>

\* After the loop: the artifact is written over, the connection closed.
finish_load ==
    /\ pc = "loading" /\ mode = "db" /\ csv_files = <<>>
    /\ "table_info_unwritable" \notin faults
    /\ table_info_file' = write_table_info(table_info_file, table_info)
    /\ pc' = "serving"
    /\ UNCHANGED <<call, mode, csv_dir, csv_files, db, table_info, created_tables,
                   dfs, response, scan, previous, faults>>

\* open(TABLE_INFO_PATH, 'w') raises, outside every try: the traceback
\* ends the process, the tables made stay in the store.
write_table_info_fails ==
    /\ pc = "loading" /\ mode = "db" /\ csv_files = <<>>
    /\ "table_info_unwritable" \in faults
    /\ pc' = "crashed"
    /\ UNCHANGED <<call, mode, csv_dir, csv_files, db, table_info, created_tables,
                   table_info_file, dfs, response, scan, previous, faults>>

\* --------------------------------------------------------- load_csv_files
start_pandas ==
    /\ pc = "boot" /\ mode = "pandas"
    /\ \E order \in Perms(DOMAIN csv_dir) : csv_files' = order /\ scan' = order
    /\ dfs' = EmptyMap
    /\ pc' = "loading"
    /\ UNCHANGED <<call, mode, csv_dir, db, table_info, created_tables,
                   table_info_file, response, previous, faults>>

\* The files left to the loop after a failed read has been logged.
files_after_read_error(files) == Tail(files)

read_csv_file ==
    /\ pc = "loading" /\ mode = "pandas" /\ csv_files # <<>>
    /\ LET base_name == csv_files[1]
           file == csv_dir[base_name]
       IN  \/ /\ ~file.parses
              /\ csv_files' = files_after_read_error(csv_files)
              /\ UNCHANGED dfs
           \/ /\ file.parses
              /\ dfs' = [k \in DOMAIN dfs \cup {base_name} |->
                            IF k = base_name THEN read_csv(file) ELSE dfs[k]]
              /\ csv_files' = Tail(csv_files)
    /\ UNCHANGED <<call, mode, pc, csv_dir, db, table_info, created_tables,
                   table_info_file, response, scan, previous, faults>>

finish_read ==
    /\ pc = "loading" /\ mode = "pandas" /\ csv_files = <<>>
    /\ pc' = "serving"
    /\ UNCHANGED <<call, mode, csv_dir, csv_files, db, table_info, created_tables,
                   table_info_file, dfs, response, scan, previous, faults>>

\* ---------------------------------------------------------- process exit
\* The server process ends and is started again: ./rssystem.db and
\* ./table_info.txt stay on disk, everything in memory is gone, and ./csv
\* may have changed in the meantime.
restart ==
    /\ pc = "serving"
    /\ \E dir \in RestartDirs :
         /\ csv_dir' = dir
         /\ previous' = IF dir = csv_dir
                        THEN Outcome(TRUE, scan, db, table_info_file)
                        ELSE NoOutcome
    /\ pc' = "boot"
    /\ csv_files' = <<>>
    /\ table_info' = <<>>
    /\ created_tables' = <<>>
    /\ dfs' = EmptyMap
    /\ response' = NoResponse
    /\ scan' = <<>>
    /\ UNCHANGED <<call, mode, db, table_info_file, faults>>

\* ---------------------------------------------------------------- tools
\* The character every regular expression character but a newline matches.
AnyChar == "."

\* Where the header mark stands in a line.
MarksOf(line) == {p \in 1..Len(line) : line[p] = HeaderMark}

FirstMark(line) == CHOOSE p \in MarksOf(line) : \A q \in MarksOf(line) : p <= q

\* re.findall(r'# テーブル: (.*)', content): of every line that holds the
\* mark, what follows the first mark up to the end of the line.
re_findall(text) ==
    LET marked == SelectSeq(text, LAMBDA line : MarksOf(line) # {})
    IN  [i \in 1..Len(marked) |->
            SubSeq(marked[i], FirstMark(marked[i]) + 1, Len(marked[i]))]

\* Whether table_name, put into the pattern as it is, matches what follows
\* a mark: it matches a beginning of it, and a "." in it any character.
header_matches(table_name, rest) ==
    /\ Len(table_name) <= Len(rest)
    /\ \A i \in 1..Len(table_name) :
         table_name[i] = AnyChar \/ table_name[i] = rest[i]

\* The marks of a text, as <<line, position>>, and their order.
Occurrences(text) ==
    UNION {{<<l, p>> : p \in MarksOf(text[l])} : l \in 1..Len(text)}

Before(o, q) == o[1] < q[1] \/ (o[1] = q[1] /\ o[2] <= q[2])

Earliest(S) == CHOOSE o \in S : \A q \in S : Before(o, q)

\* str.strip() of a text: the blanks and line ends at both ends removed.
RECURSIVE lstrip_line(_)
lstrip_line(line) ==
    IF line # <<>> /\ line[1] \in Whitespace THEN lstrip_line(Tail(line)) ELSE line

RECURSIVE rstrip_line(_)
rstrip_line(line) ==
    IF line # <<>> /\ line[Len(line)] \in Whitespace
    THEN rstrip_line(SubSeq(line, 1, Len(line) - 1)) ELSE line

RECURSIVE lstrip(_)
lstrip(text) ==
    IF text = <<>> THEN <<>>
    ELSE IF lstrip_line(text[1]) = <<>> THEN lstrip(Tail(text))
    ELSE <<lstrip_line(text[1])>> \o Tail(text)

RECURSIVE rstrip(_)
rstrip(text) ==
    IF text = <<>> THEN <<>>
    ELSE IF rstrip_line(text[Len(text)]) = <<>>
    THEN rstrip(SubSeq(text, 1, Len(text) - 1))
    ELSE SubSeq(text, 1, Len(text) - 1) \o <<rstrip_line(text[Len(text)])>>

strip(text) == IF rstrip(lstrip(text)) = <<>> THEN << <<>> >> ELSE rstrip(lstrip(text))

\* re.search(f"# テーブル: {table_name}(.*?)(?=# テーブル:|$)", content,
\* re.DOTALL): the first mark in the text that table_name matches after,
\* and the group: what follows the name up to the next mark or the end.
re_search(text, table_name) ==
    LET rest_of(o) == SubSeq(text[o[1]], o[2] + 1, Len(text[o[1]]))
        matches == {o \in Occurrences(text) : header_matches(table_name, rest_of(o))}
    IN  IF matches = {} THEN [found |-> FALSE, group |-> <<>>]
        ELSE LET m == Earliest(matches)
                 from == m[2] + Len(table_name) + 1
                 later == {o \in Occurrences(text) :
                              o[1] > m[1] \/ (o[1] = m[1] /\ o[2] >= from)}
                 line == text[m[1]]
             IN  [found |-> TRUE,
                  group |->
                    IF later = {}
                    THEN <<SubSeq(line, from, Len(line))>>
                            \o SubSeq(text, m[1] + 1, Len(text))
                    ELSE LET n == Earliest(later)
                         IN  IF n[1] = m[1]
                             THEN <<SubSeq(line, from, n[2] - 1)>>
                             ELSE <<SubSeq(line, from, Len(line))>>
                                     \o SubSeq(text, m[1] + 1, n[1] - 1)
                                     \o <<SubSeq(text[n[1]], 1, n[2] - 1)>>]

\* open(TABLE_INFO_PATH, 'r') and f.read() succeed.
table_info_readable ==
    table_info_file.exists /\ "table_info_unreadable" \notin faults

get_table_names ==
    /\ pc = "serving" /\ mode = "db"
    /\ response' =
         IF table_info_readable
         THEN Response("get_table_names", <<>>, NoQuery, "ok", 0, 0, 0, <<>>,
                       re_findall(table_info_text(table_info_file.blocks)), <<>>)
         ELSE Response("get_table_names", <<>>, NoQuery, "io_error", 0, 0, 0,
                       <<>>, <<>>, <<>>)
    /\ UNCHANGED <<call, mode, pc, csv_dir, csv_files, db, table_info, created_tables,
                   table_info_file, dfs, scan, previous, faults>>

\* The response's blocks are the lines of the text returned.
get_table_schema(table_name) ==
    /\ pc = "serving" /\ mode = "db"
    /\ \E match \in {re_search(table_info_text(table_info_file.blocks), table_name)} :
         response' =
             IF ~table_info_readable
             THEN Response("get_table_schema", table_name, NoQuery, "io_error",
                           0, 0, 0, <<>>, <<>>, <<>>)
             ELSE IF ~match.found
             THEN Response("get_table_schema", table_name, NoQuery, "not_found",
                           0, 0, 0, <<>>, <<>>, <<>>)
             ELSE Response("get_table_schema", table_name, NoQuery, "ok",
                           0, 0, 0, <<>>, <<>>,
                           << <<HeaderMark>> \o table_name >> \o strip(match.group))
    /\ UNCHANGED <<call, mode, pc, csv_dir, csv_files, db, table_info, created_tables,
                   table_info_file, dfs, scan, previous, faults>>

execute_sql_query(sql_query) ==
    /\ pc = "serving" /\ mode = "db"
    /\ IF ~re_match_select(sql_text(sql_query))
       THEN /\ response' = Response("execute_sql_query", <<>>, sql_query,
                                    "rejected", 0, 0, 0, <<>>, <<>>, <<>>)
            /\ db' = db
       ELSE IF "db_unavailable" \in faults
       \* sqlite3.connect raises inside the try
       THEN /\ response' = Response("execute_sql_query", <<>>, sql_query,
                                    "error", 1, 0, 0, <<>>, <<>>,
                                    <<query_error(<<UnableToOpen>>)>>)
            /\ db' = db
       ELSE \E result \in {read_sql_query(db, sql_query)} :
                /\ db' = result.store
                /\ response' =
                     IF result.ok
                     THEN Response("execute_sql_query", <<>>, sql_query, "ok", 1,
                                   Len(result.rows), result.ncols,
                                   head(result.rows, RowCap), <<>>, <<>>)
                     ELSE Response("execute_sql_query", <<>>, sql_query, "error",
                                   1, 0, 0, <<>>, <<>>,
                                   <<query_error(result.message)>>)
    /\ UNCHANGED <<call, mode, pc, csv_dir, csv_files, table_info, created_tables,
                   table_info_file, dfs, scan, previous, faults>>

\* ------------------------------------------------------ pandas-mode tools
\* What a pandas-mode tool returned; kind "raised" is an exception that
\* left the function instead of a string.
FrameResponse(op, df_name, df_query, columns, kind, original_rows, total_rows, total_cols, rows, info) ==
    [op |-> op, df_name |-> df_name, df_query |-> df_query, columns |-> columns,
     kind |-> kind, original_rows |-> original_rows, total_rows |-> total_rows,
     total_cols |-> total_cols, rows |-> rows, info |-> info]

\* dfs.keys(): the frames in the order the load has read them.
dfs_keys == SelectSeq(scan, LAMBDA name : name \in DOMAIN dfs)

get_dataframe_names ==
    /\ pc = "serving" /\ mode = "pandas"
    /\ response' = FrameResponse("get_dataframe_names", <<>>, "", <<>>, "ok",
                                 0, 0, 0, <<>>, dfs_keys)
    /\ UNCHANGED <<call, mode, pc, csv_dir, csv_files, db, table_info, created_tables,
                   table_info_file, dfs, scan, previous, faults>>

NumericDtypes == {"int64", "float64"}

\* a < b for two numbers mant / 10^scale.
NumLess(a, b) == a.mant * (10 ^ b.scale) < b.mant * (10 ^ a.scale)

\* Series.min() and Series.max(): over the values that are not missing,
\* the missing value when there is none.
series_min(values) ==
    LET present == {values[i] : i \in {k \in 1..Len(values) : values[k].t = "num"}}
    IN  IF present = {} THEN NaN
        ELSE CHOOSE v \in present : \A w \in present : ~NumLess(w, v)

series_max(values) ==
    LET present == {values[i] : i \in {k \in 1..Len(values) : values[k].t = "num"}}
    IN  IF present = {} THEN NaN
        ELSE CHOOSE v \in present : \A w \in present : ~NumLess(v, w)

\* One line of the column details: dtype, isna().sum(), nunique(), and
\* min() and max() of a numeric column.
detailed_column(column) ==
    LET numeric == column.type \in NumericDtypes
        present == {i \in 1..Len(column.values) : column.values[i].t # "nan"}
    IN  [name |-> column.name,
         dtype |-> column.type,
         null_count |-> Len(column.values) - Cardinality(present),
         unique_count |-> Cardinality({column.values[i] : i \in present}),
         numeric |-> numeric,
         min |-> IF numeric THEN series_min(column.values) ELSE NaN,
         max |-> IF numeric THEN series_max(column.values) ELSE NaN]

get_detailed_column_info(df_name) ==
    /\ pc = "serving" /\ mode = "pandas"
    /\ response' =
         IF df_name \notin DOMAIN dfs
         THEN FrameResponse("get_detailed_column_info", df_name, "", <<>>,
                            "not_found", 0, 0, 0, <<>>, <<>>)
         ELSE FrameResponse("get_detailed_column_info", df_name, "", <<>>, "ok",
                            NRows(dfs[df_name]), NRows(dfs[df_name]),
                            Len(dfs[df_name]), <<>>,
                            [j \in 1..Len(dfs[df_name]) |->
                                detailed_column(dfs[df_name][j])])
    /\ UNCHANGED <<call, mode, pc, csv_dir, csv_files, db, table_info, created_tables,
                   table_info_file, dfs, scan, previous, faults>>

\* original_df.query(df_query): the positions of the rows kept, or the
\* raise of an expression that does not parse.  The index of a frame
\* read from a file counts from 0.
df_query_result(df_query, n) ==
    CASE df_query = "index >= 0" -> [ok |-> TRUE, kept |-> [i \in 1..n |-> i]]
      [] df_query = "index < 1" ->
           [ok |-> TRUE, kept |-> IF n >= 1 THEN <<1>> ELSE <<>>]
      [] df_query = "index < 0" -> [ok |-> TRUE, kept |-> <<>>]
      [] OTHER -> [ok |-> FALSE, kept |-> <<>>]

\* The rows to_string says it limits the output to.
MaxRows == 100

\* DataFrame.to_string(max_rows=...): every row of a frame of at most
\* max_rows rows; of a longer one the first and the last max_rows / 2.
to_string_rows(rows, max_rows) ==
    IF Len(rows) <= max_rows THEN rows
    ELSE SubSeq(rows, 1, max_rows \div 2)
            \o SubSeq(rows, Len(rows) - (max_rows \div 2) + 1, Len(rows))

\* Where the column named is in the frame; 0 when it is not.
column_position(df, name) ==
    IF \E j \in 1..Len(df) : df[j].name = name
    THEN CHOOSE j \in 1..Len(df) : df[j].name = name ELSE 0

\* The numeric columns of the frame and the count describe() gives each.
describe(df, kept) ==
    LET numeric == SelectSeq(df, LAMBDA column : column.type \in NumericDtypes)
    IN  [j \in 1..Len(numeric) |->
            [name |-> numeric[j].name,
             count |-> Cardinality({i \in 1..Len(kept) :
                                      numeric[j].values[kept[i]].t = "num"})]]

select_dataframe(df_name, df_query, columns) ==
    /\ pc = "serving" /\ mode = "pandas"
    /\ IF df_name \notin DOMAIN dfs
       THEN response' = FrameResponse("select_dataframe", df_name, df_query,
                                      columns, "not_found", 0, 0, 0, <<>>, <<>>)
       ELSE \E original_df \in {dfs[df_name]} :
            \E result \in {df_query_result(df_query, NRows(original_df))} :
            \E positions \in {[c \in 1..Len(columns) |->
                                  column_position(original_df, columns[c])]} :
              response' =
                IF ~result.ok
                THEN FrameResponse("select_dataframe", df_name, df_query,
                                   columns, "query_error",
                                   NRows(original_df), 0, 0, <<>>, <<>>)
                \* queried_df[columns] raises KeyError, outside the try
                ELSE IF \E c \in 1..Len(columns) : positions[c] = 0
                THEN FrameResponse("select_dataframe", df_name, df_query,
                                   columns, "raised",
                                   NRows(original_df), Len(result.kept),
                                   Len(original_df), <<>>, <<>>)
                ELSE FrameResponse("select_dataframe", df_name, df_query,
                                   columns, "ok",
                                   NRows(original_df), Len(result.kept),
                                   Len(original_df),
                                   to_string_rows(
                                      [i \in 1..Len(result.kept) |->
                                          [index |-> result.kept[i] - 1,
                                           cells |-> [c \in 1..Len(columns) |->
                                              original_df[positions[c]]
                                                 .values[result.kept[i]]]]],
                                      MaxRows),
                                   describe(original_df, result.kept))
    /\ UNCHANGED <<call, mode, pc, csv_dir, csv_files, db, table_info, created_tables,
                   table_info_file, dfs, scan, previous, faults>>

\* ==================================================== kokkai_search.py
\* A text argument is a sequence of characters, a fixed Japanese word one
\* character; None and "" are one value, the empty text, as every test of
\* the tools is a truth test.  An Optional[int] is a set of at most one
\* integer.
\* "衆議院", "参議院", "両院", "両院協議会"
VALID_HOUSES == {<<"SHUGIIN">>, <<"SANGIIN">>, <<"RYOIN">>, <<"RYOIN-KYOGIKAI">>}
\* "証人", "参考人", "公述人"
VALID_SPEAKER_ROLES == {<<"SHONIN">>, <<"SANKONIN">>, <<"KOJUTSUNIN">>}

_validate_house_name(house_name) == house_name \in VALID_HOUSES

_validate_speaker_role(role) == role \in VALID_SPEAKER_ROLES

DashPositions(s) == {i \in 1..Len(s) : s[i] = "-"}

IsLeapYear(y) == (y % 4 = 0 /\ y % 100 # 0) \/ y % 400 = 0

DaysInMonth(y, m) ==
    IF m = 2 THEN (IF IsLeapYear(y) THEN 29 ELSE 28)
    ELSE IF m \in {4, 6, 9, 11} THEN 30 ELSE 31

\* The directive %m of strptime: 1[0-2]|0[1-9]|[1-9]
MonthField(s) == isdigit(s) /\ Len(s) <= 2 /\ DigitsValue(s) \in 1..12

\* The directive %d of strptime: 3[01]|[12]\d|0[1-9]|[1-9]| [1-9]
DayField(s) ==
    \/ isdigit(s) /\ Len(s) <= 2 /\ DigitsValue(s) \in 1..31
    \/ Len(s) = 2 /\ s[1] = " " /\ s[2] \in DigitChars \ {"0"}

\* datetime.strptime(date_str, "%Y-%m-%d") does not raise: the whole
\* text is a year of four digits, a month and a day field with a dash
\* between them, and the date is one of the calendar.
_validate_date_format(date_str) ==
    /\ Cardinality(DashPositions(date_str)) = 2
    /\ \E p \in DashPositions(date_str) : \E q \in DashPositions(date_str) :
          /\ p < q
          /\ LET year  == SubSeq(date_str, 1, p - 1)
                 month == SubSeq(date_str, p + 1, q - 1)
                 day   == SubSeq(date_str, q + 1, Len(date_str))
             IN  /\ isdigit(year) /\ Len(year) = 4
                 /\ MonthField(month)
                 /\ DayField(day)
                 /\ DigitsValue(year) >= 1
                 /\ DigitsValue(lstrip_line(day))
                       <= DaysInMonth(DigitsValue(year), DigitsValue(month))

AlnumChars ==
    DigitChars \cup {LowerLetters[i] : i \in LetterIxs}
               \cup {UpperLetters[i] : i \in LetterIxs}

\* The length of the first part of an ID.
IssueIdLen == 21

\* r'^[A-Za-z0-9]{21}_\d{3,4}$'
_validate_speech_id(speech_id) ==
    /\ Len(speech_id) \in {IssueIdLen + 4, IssueIdLen + 5}
    /\ \A i \in 1..IssueIdLen : speech_id[i] \in AlnumChars
    /\ speech_id[IssueIdLen + 1] = "_"
    /\ \A i \in (IssueIdLen + 2)..Len(speech_id) : speech_id[i] \in DigitChars

\* r'^[A-Za-z0-9]{21}$'
_validate_issue_id(issue_id) ==
    /\ Len(issue_id) = IssueIdLen
    /\ \A i \in 1..IssueIdLen : issue_id[i] \in AlnumChars

_validate_session_number(session) == 1 <= session /\ session <= 999

_validate_issue_number(issue) == 0 <= issue /\ issue <= 999

\* The parameters of a request: the texts and the integers by their keys.
Params(text, num) == [text |-> text, num |-> num]

\* The keys of the search conditions: texts, integers.
required_text_fields ==
    {"nameOfHouse", "nameOfMeeting", "any", "speaker", "from", "until",
     "speakerPosition", "speakerGroup", "speakerRole", "speechID", "issueID"}

required_num_fields ==
    {"speechNumber", "sessionFrom", "sessionTo", "issueFrom", "issueTo"}

_validate_required_params(params) ==
    \/ \E field \in required_text_fields \cap DOMAIN params.text :
          rstrip_line(lstrip_line(params.text[field])) # <<>>
    \/ required_num_fields \cap DOMAIN params.num # {}

\* The errors in the order _validate_params appends them.
ErrorOrder ==
    <<"required", "nameOfHouse", "speakerRole", "from", "until", "speechID",
      "issueID", "sessionFrom", "sessionTo", "issueFrom", "issueTo",
      "speechNumber", "maximumRecords", "startRecord">>

\* The most records one request may ask of an endpoint.
MaxSpeechRecords == 100
MaxMeetingRecords == 10

\* Whether _validate_params appends the error of the name.
param_error(params, endpoint, error) ==
    LET text_fails(key, valid) ==
            key \in DOMAIN params.text /\ params.text[key] # <<>> /\ ~valid
        num_fails(key, valid) == key \in DOMAIN params.num /\ ~valid
    IN  CASE error = "required" -> ~_validate_required_params(params)
          [] error = "nameOfHouse" ->
               text_fails("nameOfHouse", _validate_house_name(params.text["nameOfHouse"]))
          [] error = "speakerRole" ->
               text_fails("speakerRole", _validate_speaker_role(params.text["speakerRole"]))
          [] error = "from" ->
               text_fails("from", _validate_date_format(params.text["from"]))
          [] error = "until" ->
               text_fails("until", _validate_date_format(params.text["until"]))
          [] error = "speechID" ->
               text_fails("speechID", _validate_speech_id(params.text["speechID"]))
          [] error = "issueID" ->
               text_fails("issueID", _validate_issue_id(params.text["issueID"]))
          [] error = "sessionFrom" ->
               num_fails("sessionFrom", _validate_session_number(params.num["sessionFrom"]))
          [] error = "sessionTo" ->
               num_fails("sessionTo", _validate_session_number(params.num["sessionTo"]))
          [] error = "issueFrom" ->
               num_fails("issueFrom", _validate_issue_number(params.num["issueFrom"]))
          [] error = "issueTo" ->
               num_fails("issueTo", _validate_issue_number(params.num["issueTo"]))
          [] error = "speechNumber" ->
               num_fails("speechNumber", params.num["speechNumber"] >= 0)
          [] error = "maximumRecords" ->
               num_fails("maximumRecords",
                         params.num["maximumRecords"]
                            <= (IF endpoint = "meeting" THEN MaxMeetingRecords
                                ELSE MaxSpeechRecords))
          [] error = "startRecord" ->
               num_fails("startRecord", params.num["startRecord"] >= 1)

_validate_params(params, endpoint) ==
    SelectSeq(ErrorOrder, LAMBDA error : param_error(params, endpoint, error))

\* _build_url: the ValueError with the errors found, or the URL: the
\* endpoint and the parameters that are not blank, stripped.
_build_url(endpoint, params) ==
    LET validation_errors == _validate_params(params, endpoint)
        kept == {k \in DOMAIN params.text :
                    rstrip_line(lstrip_line(params.text[k])) # <<>>}
    IN  IF validation_errors # <<>>
        THEN [raised |-> TRUE, errors |-> validation_errors,
              url |-> [endpoint |-> endpoint, query |-> Params(<<>>, <<>>)]]
        ELSE [raised |-> FALSE, errors |-> <<>>,
              url |-> [endpoint |-> endpoint,
                       query |-> Params([k \in kept |->
                                           rstrip_line(lstrip_line(params.text[k]))],
                                        params.num)]]

\* The arguments given that are true: the keys of texts that are not
\* empty, under the names the request uses.
given_texts(args, keys) ==
    [k \in {key \in keys : args[key] # <<>>} |-> args[k]]

given_numbers(args, keys) ==
    [k \in {key \in keys : args[key] # {}} |-> CHOOSE n \in args[k] : TRUE]

\* A slip: the lower bound left out.
clamp_upper_only(value, low, high) == IF value > high THEN high ELSE value

\* min(max(value, low), high)
clamp(value, low, high) ==
    LET raised == IF value > low THEN value ELSE low
    IN  IF raised < high THEN raised ELSE high

\* What the API answers, as _make_request and _format_results tell them
\* apart: no answer, an error message, records.
Replies == {"error", "message", "records"}

\* The end of a tool: try _build_url, _make_request, _format_results;
\* except ValueError.
request_and_format(tool, args, endpoint, params) ==
    \E built \in {_build_url(endpoint, params)} :
        IF built.raised
        THEN call' = [tool |-> tool, args |-> args, done |-> TRUE,
                      params |-> params, requests |-> <<>>,
                      kind |-> "parameter_error", errors |-> built.errors]
        ELSE \E reply \in Replies :
                call' = [tool |-> tool, args |-> args, done |-> TRUE,
                         params |-> params, requests |-> <<built.url>>,
                         kind |-> reply, errors |-> <<>>]

SpeechTextKeys ==
    {"any", "speaker", "nameOfHouse", "nameOfMeeting", "from", "until",
     "speakerPosition", "speakerGroup", "speakerRole"}

MeetingTextKeys == {"any", "nameOfHouse", "nameOfMeeting", "from", "until"}

SessionKeys == {"sessionFrom", "sessionTo"}

\* The numbers of records asked for when the caller gives none.
DefaultSpeechRecords == 30
DefaultMeetingRecords == 3

search_kokkai_speeches(args) ==
    /\ call = Called("search_kokkai_speeches", args)
    /\ IF /\ \A key \in SpeechTextKeys : args[key] = <<>>
          /\ \A key \in SessionKeys : args[key] = {}
       THEN call' = [tool |-> "search_kokkai_speeches", args |-> args,
                     done |-> TRUE,
                     params |-> Params(<<>>, <<>>), requests |-> <<>>,
                     kind |-> "no_condition", errors |-> <<>>]
       ELSE request_and_format(
               "search_kokkai_speeches", args, "speech",
               Params(given_texts(args, SpeechTextKeys)
                         @@ ("recordPacking" :> <<"j", "s", "o", "n">>),
                      given_numbers(args, SessionKeys)
                         @@ ("maximumRecords" :>
                                clamp(args.maximumRecords, 1, MaxSpeechRecords))
                         @@ ("startRecord" :>
                                IF args.startRecord > 1 THEN args.startRecord ELSE 1)))
    /\ UNCHANGED server_vars

search_kokkai_meetings(args) ==
    /\ call = Called("search_kokkai_meetings", args)
    /\ request_and_format(
          "search_kokkai_meetings", args, "meeting",
          Params(given_texts(args, MeetingTextKeys)
                    @@ ("recordPacking" :> <<"j", "s", "o", "n">>),
                 given_numbers(args, SessionKeys)
                    @@ ("maximumRecords" :>
                           clamp(args.maximumRecords, 1, MaxMeetingRecords))
                    @@ ("startRecord" :>
                           IF args.startRecord > 1 THEN args.startRecord ELSE 1)))
    /\ UNCHANGED server_vars

get_speech_by_id(speech_id) ==
    /\ call = Called("get_speech_by_id", [speechID |-> speech_id])
    /\ request_and_format(
          "get_speech_by_id", [speechID |-> speech_id], "speech",
          Params(("recordPacking" :> <<"j", "s", "o", "n">>)
                    @@ ("speechID" :> speech_id),
                 "maximumRecords" :> 1))
    /\ UNCHANGED server_vars

get_meeting_by_id(issue_id) ==
    /\ call = Called("get_meeting_by_id", [issueID |-> issue_id])
    /\ request_and_format(
          "get_meeting_by_id", [issueID |-> issue_id], "meeting",
          Params(("recordPacking" :> <<"j", "s", "o", "n">>)
                    @@ ("issueID" :> issue_id),
                 "maximumRecords" :> 1))
    /\ UNCHANGED server_vars

\* The arguments the tools of kokkai_search.py are called with.
\* A date of the calendar; the same without its zeros; a day February
\* does not have.
DateTexts == {<<>>, <<"2", "0", "2", "4", "-", "0", "2", "-", "2", "9">>,
              <<"2", "0", "2", "4", "-", "2", "-", "9">>,
              <<"2", "0", "2", "3", "-", "0", "2", "-", "2", "9">>}

SpeechArgs ==
    [any : {<<>>, <<"x">>, <<" ">>},
     speaker : {<<>>, <<"y">>},
     nameOfHouse : {<<>>, <<"SHUGIIN">>, <<"x">>},
     nameOfMeeting : {<<>>},
     from : DateTexts,
     until : {<<>>, <<"x">>},
     sessionFrom : {{}, {0}, {1}},
     sessionTo : {{}, {1000}},
     speakerPosition : {<<>>},
     speakerGroup : {<<>>},
     speakerRole : {<<>>, <<"SHONIN">>, <<"x">>},
     maximumRecords : {0, DefaultSpeechRecords, MaxSpeechRecords + 1},
     startRecord : {0, 2}]

MeetingArgs ==
    [any : {<<>>, <<"x">>, <<" ">>},
     nameOfHouse : {<<>>, <<"SANGIIN">>, <<"x">>},
     nameOfMeeting : {<<>>, <<"z">>},
     from : {<<>>, <<"x">>},
     until : DateTexts,
     sessionFrom : {{}, {999}},
     sessionTo : {{}, {1}, {0 - 1}},
     maximumRecords : {0 - 1, DefaultMeetingRecords, MaxMeetingRecords,
                       MaxMeetingRecords + 1},
     startRecord : {0 - 1, 1}]

\* "100105254X00119470520" is an ID of a record of proceedings.
IssueIdText ==
    <<"1", "0", "0", "1", "0", "5", "2", "5", "4", "X", "0", "0", "1", "1", "9", "4", "7", "0", "5", "2", "0">>

IdTexts ==
    {<<>>, <<" ">>, IssueIdText, Tail(IssueIdText),
     IssueIdText \o <<"_", "0", "0", "0">>,
     IssueIdText \o <<"_", "0", "0", "0", "1">>,
     IssueIdText \o <<"_", "0", "0">>,
     IssueIdText \o <<"-", "0", "0", "0">>}

\* ================================================== niconico_serach.py
\* NicovideoAPIClient.GENRES
GENRES ==
    {"all", "hot-topic", "entertainment", "radio", "music_sound", "dance",
     "animal", "nature", "cooking", "traveling_outdoor", "vehicle", "sports",
     "society_politics_news", "technology_craft", "commentary_lecture",
     "anime", "game", "other"}

\* The keys of NicovideoAPIClient.RANKING_TERMS.
RANKING_TERMS == {"hour", "24h", "week", "month", "total"}

\* The words of the output, in ASCII: "# ニコニコ動画ランキング",
\* "- **ジャンル**: ", "- **期間**: ", "- **タグ**: ", "- **ページ**: ",
\* "- **取得件数**: ", "位", "- **タイトル**: ", "- **動画ID**: ",
\* "- **URL**: https://nico.ms/", "- **再生数**: ".
RankingTitle == "# NICOVIDEO-RANKING"
GenreLabel == "- **GENRE**: "
TermLabel == "- **TERM**: "
TagLabel == "- **TAG**: "
PageLabel == "- **PAGE**: "
CountLabel == "- **COUNT**: "
RankMark == "-TH"
TitleLabel == "- **TITLE**: "
VideoIdLabel == "- **VIDEO-ID**: "
UrlLabel == "- **URL**: https://nico.ms/"
ViewsLabel == "- **VIEWS**: "

\* f"{n}" of an integer.
format_signed(n) == IF n < 0 THEN <<"-">> \o format_int(0 - n) ELSE format_int(n)

\* An entry of the ranking as _parse_ranking_rss gives it: the title as
\* its lines (a text may hold line breaks), the video ID, the number of
\* views; an empty text or set is a key the entry does not have.
Video(title, video_id, view_count) ==
    [title |-> title, video_id |-> video_id, view_count |-> view_count]

\* The pages of a ranking and the entries of a page.
LastPage == 10
PageSize == 100

\* The lines of one entry, numbered i.
video_lines(i, video) ==
    << <<"#", "#", " ">> \o format_signed(i) \o <<RankMark>> >>
    \o (IF video.title = <<>> THEN <<>>
        ELSE << <<TitleLabel>> \o video.title[1] >> \o Tail(video.title))
    \o (IF video.video_id = <<>> THEN <<>>
        ELSE << <<VideoIdLabel>> \o video.video_id,
                <<UrlLabel>> \o video.video_id >>)
    \o (IF video.view_count = {} THEN <<>>
        ELSE << <<ViewsLabel>> \o format_int(CHOOSE n \in video.view_count : TRUE) >>)
    \o << <<>> >>

RECURSIVE videos_lines(_, _, _)
videos_lines(videos, k, first) ==
    IF k > Len(videos) THEN <<>>
    ELSE video_lines(first + k - 1, videos[k]) \o videos_lines(videos, k + 1, first)

\* The lines before the entries.
ranking_header(genre, term, tag, page, count) ==
    << <<RankingTitle>>, <<>>, <<GenreLabel, genre>>, <<TermLabel, term>> >>
    \o (IF tag = <<>> THEN <<>> ELSE << <<TagLabel>> \o tag >>)
    \o << <<PageLabel>> \o format_signed(page),
          <<CountLabel>> \o format_int(count), <<>> >>

\* The page of the request.
request_page(page) == clamp(page, 1, LastPage)

\* What get_nicovideo_ranking returns, with the requests it has sent: the
\* lines of result.split("\n"), the page it shows and the ranks it shows.
\* rss is the answer to the request: an error, or the entries parsed.
ranking_result(genre, term, tag, page, rss) ==
    IF genre \notin GENRES
    THEN [kind |-> "invalid_genre", requests |-> <<>>, lines |-> << <<"ERROR">> >>,
          page_shown |-> 0, ranks |-> <<>>, videos |-> <<>>]
    ELSE IF term \notin RANKING_TERMS
    THEN [kind |-> "invalid_term", requests |-> <<>>, lines |-> << <<"ERROR">> >>,
          page_shown |-> 0, ranks |-> <<>>, videos |-> <<>>]
    ELSE LET request == [genre |-> genre, term |-> term, tag |-> tag,
                         page |-> request_page(page)]
             videos == rss.videos
         IN  IF rss.error
             THEN [kind |-> "request_error", requests |-> <<request>>,
                   lines |-> << <<"ERROR">> >>,
                   page_shown |-> 0, ranks |-> <<>>, videos |-> <<>>]
             ELSE IF videos = <<>>
             THEN [kind |-> "no_videos", requests |-> <<request>>,
                   lines |-> << <<"NO-RANKING">> >>,
                   page_shown |-> 0, ranks |-> <<>>, videos |-> <<>>]
             ELSE [kind |-> "ranking", requests |-> <<request>>,
                   lines |-> ranking_header(genre, term, tag, page, Len(videos))
                                \o videos_lines(videos, 1, 1 + (page - 1) * PageSize)
                                \o << <<>> >>,
                   page_shown |-> page,
                   ranks |-> [i \in 1..Len(videos) |-> i + (page - 1) * PageSize],
                   videos |-> videos]

\* The entries an answer may hold: one with everything, one whose title
\* has a second line that reads as the heading of an entry, one with
\* its ID alone.
RankedVideos ==
    {Video(<< <<"a">> >>, <<"s", "m", "1">>, {12}),
     Video(<< <<"b">>, <<"#", "#", " ", "c", RankMark>> >>, <<"s", "m", "2">>, {}),
     Video(<<>>, <<"s", "m", "3">>, {})}

\* The most entries an answer holds.
MaxVideos == 3

\* No answer, or the entries parsed of it (none when it is not RSS).
RssReplies ==
    {[error |-> TRUE, videos |-> <<>>]}
    \cup {[error |-> FALSE, videos |-> videos] :
             videos \in UNION {[1..n -> RankedVideos] : n \in 0..MaxVideos}}

RankingArgs ==
    [genre : {"all", "game", "x"}, term : {"24h", "x"},
     tag : {<<>>, <<"t">>},
     page : {0 - 1, 0, 1, 2, LastPage, LastPage + 1}]

PopularArgs ==
    [genre : {"all", "x"}, term : {"24h", "week", "x"},
     limit : {0 - 1, 0, 1, 2, 3, PageSize, PageSize + 1}]

get_nicovideo_ranking(genre, term, tag, page) ==
    /\ call = Called("get_nicovideo_ranking",
                     [genre |-> genre, term |-> term, tag |-> tag, page |-> page])
    /\ \E rss \in RssReplies :
          call' = [tool |-> call.tool, args |-> call.args, done |-> TRUE]
                     @@ ranking_result(genre, term, tag, page, rss)
    /\ UNCHANGED server_vars

\* line.startswith('## ') and '位' in line
is_rank_line(line) ==
    /\ Len(line) >= 3 /\ line[1] = "#" /\ line[2] = "#" /\ line[3] = " "
    /\ \E i \in 1..Len(line) : line[i] = RankMark

\* The loop over the lines: the lines kept from line k on, video_count
\* entries having been counted.
RECURSIVE result_lines(_, _, _, _)
result_lines(lines, k, video_count, actual_limit) ==
    IF k > Len(lines) THEN <<>>
    ELSE IF is_rank_line(lines[k]) /\ video_count + 1 > actual_limit THEN <<>>
    ELSE <<lines[k]>>
            \o result_lines(lines, k + 1,
                            IF is_rank_line(lines[k]) THEN video_count + 1
                            ELSE video_count,
                            actual_limit)

get_genre_popular_videos(genre, term, limit) ==
    /\ call = Called("get_genre_popular_videos",
                     [genre |-> genre, term |-> term, limit |-> limit])
    /\ \E rss \in RssReplies :
       \E ranking \in {ranking_result(genre, term, <<>>, 1, rss)} :
          call' = [tool |-> call.tool, args |-> call.args, done |-> TRUE]
                     @@ [ranking EXCEPT
                           !.lines = result_lines(ranking.lines, 1, 0,
                                                  IF limit < PageSize THEN limit
                                                  ELSE PageSize)]
    /\ UNCHANGED server_vars

\* ========================================= refdb-progressive-search.py
\* A date is the number of its day, 0001-01-01 being day 1 (the ordinal
\* of datetime).
DaysBeforeYear(y) ==
    365 * (y - 1) + ((y - 1) \div 4) - ((y - 1) \div 100) + ((y - 1) \div 400)

RECURSIVE DaysBeforeMonth(_, _)
DaysBeforeMonth(y, m) ==
    IF m = 1 THEN 0 ELSE DaysBeforeMonth(y, m - 1) + DaysInMonth(y, m - 1)

to_ordinal(y, m, d) == DaysBeforeYear(y) + DaysBeforeMonth(y, m) + d

\* datetime.max.toordinal(): 9999-12-31
MaxOrdinal == 3652059

\* The year and the month of a day.
year_of(n) ==
    CHOOSE y \in ((n \div 366) + 1)..((n \div 365) + 1) :
        DaysBeforeYear(y) < n /\ n <= DaysBeforeYear(y + 1)

month_of(n) ==
    CHOOSE m \in 1..12 :
        /\ DaysBeforeYear(year_of(n)) + DaysBeforeMonth(year_of(n), m) < n
        /\ n <= DaysBeforeYear(year_of(n)) + DaysBeforeMonth(year_of(n), m)
                   + DaysInMonth(year_of(n), m)

\* current.strftime('%Y-%m'), as the year and the month.
strftime_year_month(n) == <<year_of(n), month_of(n)>>

\* datetime.strptime(text, '%Y%m%d'): four digits of a year, then the
\* longest month field and after it the longest day field that the
\* text has there, which must end the text; the day of a date of the
\* calendar, or the ValueError.
strptime_compact(text) ==
    LET fields == {f \in {1, 2} \X {1, 2} :
                      /\ 4 + f[1] + f[2] <= Len(text)
                      /\ MonthField(SubSeq(text, 5, 4 + f[1]))
                      /\ DayField(SubSeq(text, 5 + f[1], 4 + f[1] + f[2]))}
        found == CHOOSE f \in fields :
                    \A g \in fields :
                        g[1] < f[1] \/ (g[1] = f[1] /\ g[2] <= f[2])
        year  == DigitsValue(SubSeq(text, 1, 4))
        month == DigitsValue(SubSeq(text, 5, 4 + found[1]))
        day   == DigitsValue(lstrip_line(SubSeq(text, 5 + found[1],
                                                4 + found[1] + found[2])))
    IN  IF /\ Len(text) >= 4 /\ isdigit(SubSeq(text, 1, 4))
           /\ fields # {}
           /\ 4 + found[1] + found[2] = Len(text)
           /\ year >= 1
           /\ day <= DaysInMonth(year, month)
        THEN [raised |-> FALSE, date |-> to_ordinal(year, month, day)]
        ELSE [raised |-> TRUE, date |-> 0]

\* timedelta(days=30)
PeriodDays == 30

\* The items of a search kept as samples.
SampleItems == 3

\* What APIClient.execute_search returns: an error (no hit_num), or the
\* number of hits and the items of the result set.
SearchReply(hit_num, items) == [hit_num |-> hit_num, items |-> items]

SearchReplies == {SearchReply({}, 0), SearchReply({0}, 0), SearchReply({5}, 4)}

RECURSIVE sum_counts(_)
sum_counts(trend_data) ==
    IF trend_data = <<>> THEN 0
    ELSE trend_data[1].count + sum_counts(Tail(trend_data))

\* The period of the first greatest count.
peak_month(trend_data) ==
    trend_data[CHOOSE i \in 1..Len(trend_data) :
                  /\ \A j \in 1..Len(trend_data) :
                        trend_data[j].count <= trend_data[i].count
                  /\ \A j \in 1..(i - 1) :
                        trend_data[j].count < trend_data[i].count].period

\* analysis['summary']: the sum, the average as a fraction, the peak (no
\* period when there is none).
summary(trend_data) ==
    [total_count |-> sum_counts(trend_data),
     average_monthly |->
        IF trend_data # <<>> THEN <<sum_counts(trend_data), Len(trend_data)>>
        ELSE <<0, 1>>,
     peak_month |-> IF trend_data # <<>> THEN {peak_month(trend_data)} ELSE {}]

NoSummary == [total_count |-> 0, average_monthly |-> <<0, 1>>, peak_month |-> {}]

\* The call of analyze_trends at a line of its body: "parse" (722),
\* "loop" (728), and returned: "analysis" (766) or "error" (769).
Trend(args, at, done, end, current, trend_data, requests, result) ==
    [tool |-> "analyze_trends", args |-> args, at |-> at, done |-> done,
     end |-> end, current |-> current, trend_data |-> trend_data,
     requests |-> requests, summary |-> result]

\* Lines 722-726; a ValueError goes to the except.
analyze_trends_parse ==
    /\ call.tool = "analyze_trends" /\ ~call.done /\ call.at = "parse"
    /\ \E start \in {strptime_compact(call.args.date_from)} :
       \E end \in {strptime_compact(call.args.date_to)} :
          call' = IF start.raised \/ end.raised
                  THEN Trend(call.args, "error", TRUE, 0, 0, <<>>, <<>>, NoSummary)
                  ELSE Trend(call.args, "loop", FALSE, end.date, start.date,
                             <<>>, <<>>, NoSummary)
    /\ UNCHANGED server_vars

\* Lines 728-751, one turn of the loop; the OverflowError of the sum
\* with the timedelta goes to the except.
analyze_trends_search ==
    /\ call.tool = "analyze_trends" /\ ~call.done /\ call.at = "loop"
    /\ call.current <= call.end
    /\ \E next_month \in {call.current + PeriodDays} :
          IF next_month > MaxOrdinal
          THEN call' = Trend(call.args, "error", TRUE, call.end, call.current,
                             call.trend_data, call.requests, NoSummary)
          ELSE \E reply \in SearchReplies :
                  call' = Trend(call.args, "loop", FALSE, call.end, next_month,
                                Append(call.trend_data,
                                       [period |-> strftime_year_month(call.current),
                                        count |-> IF reply.hit_num = {} THEN 0
                                                  ELSE CHOOSE n \in reply.hit_num : TRUE,
                                        sample_items |->
                                            IF reply.items < SampleItems
                                            THEN reply.items ELSE SampleItems]),
                                Append(call.requests,
                                       [from |-> call.current, to |-> next_month]),
                                NoSummary)
    /\ UNCHANGED server_vars

\* Lines 753-766.
analyze_trends_return ==
    /\ call.tool = "analyze_trends" /\ ~call.done /\ call.at = "loop"
    /\ call.current > call.end
    /\ call' = Trend(call.args, "analysis", TRUE, call.end, call.current,
                     call.trend_data, call.requests, summary(call.trend_data))
    /\ UNCHANGED server_vars

\* The dates analyze_trends is called with, and 30 February.
TrendDates ==
    {<<"2", "0", "2", "4", "0", "1", "0", "1">>, <<"2", "0", "2", "4", "0", "1", "3", "0">>,
     <<"2", "0", "2", "4", "0", "1", "3", "1">>, <<"2", "0", "2", "4", "0", "3", "0", "1">>,
     <<"2", "0", "2", "4", "0", "4", "1", "0">>, <<"9", "9", "9", "9", "1", "2", "0", "1">>,
     <<"9", "9", "9", "9", "1", "2", "0", "2">>, <<"9", "9", "9", "9", "1", "2", "3", "1">>,
     <<"2", "0", "2", "4", "0", "2", "3", "0">>}

\* The longest time analysed, in days.
MaxSpan == 100

TrendArgs ==
    {args \in [date_from : TrendDates, date_to : TrendDates] :
        \/ strptime_compact(args.date_from).raised
        \/ strptime_compact(args.date_to).raised
        \/ strptime_compact(args.date_to).date
              - strptime_compact(args.date_from).date <= MaxSpan}

\* ---------------------------------------------------------- specifications
Load ==
    \/ start_db
    \/ load_csv_file
    \/ finish_load

Next ==
    \/ Load
    \/ start_pandas
    \/ read_csv_file
    \/ finish_read
    \/ get_table_names
    \/ \E table_name \in SchemaArgs : get_table_schema(table_name)
    \/ \E sql_query \in Queries : execute_sql_query(sql_query)

Spec == Init /\ [][Next]_vars

\* The SQLite-mode server over one generated one-column file.
NextColumn ==
    \/ Load
    \/ \E sql_query \in ColumnQueries : execute_sql_query(sql_query)

SpecColumn == InitColumn /\ [][NextColumn]_vars

\* The pandas-mode server and its tools.
ReadFrames ==
    \/ start_pandas
    \/ read_csv_file
    \/ finish_read

InitFrames == InitWith({"pandas"}, FrameDirs)

NextFrames ==
    \/ ReadFrames
    \/ get_dataframe_names
    \/ \E df_name \in FrameNames : get_detailed_column_info(df_name)
    \/ \E df_name \in FrameNames : \E df_query \in FrameQueries :
          \E columns \in ColumnLists : select_dataframe(df_name, df_query, columns)

SpecFrames == InitFrames /\ [][NextFrames]_vars

\* The tools of kokkai_search.py.
KokkaiCalls ==
    {Called("search_kokkai_speeches", args) : args \in SpeechArgs}
    \cup {Called("search_kokkai_meetings", args) : args \in MeetingArgs}
    \cup {Called("get_speech_by_id", [speechID |-> id]) : id \in IdTexts}
    \cup {Called("get_meeting_by_id", [issueID |-> id]) : id \in IdTexts}

\* The servers of the CSV files are not running.
ServersOff == ServerInit({"db"}, {EmptyMap}, {{}})

InitKokkai == ServersOff /\ call \in KokkaiCalls

NextKokkai ==
    \/ \E args \in {call.args} : search_kokkai_speeches(args)
    \/ \E args \in {call.args} : search_kokkai_meetings(args)
    \/ \E speech_id \in IdTexts : get_speech_by_id(speech_id)
    \/ \E issue_id \in IdTexts : get_meeting_by_id(issue_id)

SpecKokkai == InitKokkai /\ [][NextKokkai]_vars

\* The ranking tools of niconico_serach.py.
NicoCalls ==
    {Called("get_nicovideo_ranking", args) : args \in RankingArgs}
    \cup {Called("get_genre_popular_videos", args) : args \in PopularArgs}

InitNico == ServersOff /\ call \in NicoCalls

NextNico ==
    \/ \E args \in RankingArgs :
          get_nicovideo_ranking(args.genre, args.term, args.tag, args.page)
    \/ \E args \in PopularArgs :
          get_genre_popular_videos(args.genre, args.term, args.limit)

SpecNico == InitNico /\ [][NextNico]_vars

\* analyze_trends of refdb-progressive-search.py.
InitTrends ==
    /\ ServersOff
    /\ call \in {Trend(args, "parse", FALSE, 0, 0, <<>>, <<>>, NoSummary) :
                    args \in TrendArgs}

NextTrends ==
    \/ analyze_trends_parse
    \/ analyze_trends_search
    \/ analyze_trends_return

SpecTrends == InitTrends /\ [][NextTrends]_vars

\* The SQLite-mode server asked for the schemas of its tables.
InitSchema == InitWith({"db"}, SchemaDirs)

NextSchema ==
    \/ Load
    \/ get_table_names
    \/ \E table_name \in SchemaNames : get_table_schema(table_name)

SpecSchema == InitSchema /\ [][NextSchema]_vars

\* The SQLite-mode server on a file system that refuses now this, now
\* that.
fault_change ==
    /\ pc \in {"boot", "loading", "serving"}
    /\ faults' \in SUBSET Faults
    /\ UNCHANGED <<call, mode, pc, csv_dir, csv_files, db, table_info, created_tables,
                   table_info_file, dfs, response, scan, previous>>

InitFaults == InitOf({"db"}, FaultDirs, SUBSET Faults)

NextFaults ==
    \/ Load
    \/ connect_fails
    \/ write_table_info_fails
    \/ fault_change
    \/ get_table_names
    \/ \E table_name \in FaultNames : get_table_schema(table_name)
    \/ \E sql_query \in FaultQueries : execute_sql_query(sql_query)

SpecFaults == InitFaults /\ [][NextFaults]_vars

\* The SQLite-mode server started again and again over changing files.
InitRestart == InitWith({"db"}, RestartDirs)

NextRestart ==
    \/ Load
    \/ restart
    \/ get_table_names

SpecRestart == InitRestart /\ [][NextRestart]_vars

\* ------------------------------------------------------------ properties
\* The words of the specification, stated over a column's raw values.
LeadingZeroString(v) ==
    /\ Len(v) >= 2
    /\ v[1] = "0"
    /\ \A i \in 1..Len(v) : v[i] \in DigitChars

SomeLeadingZero(series) == \E i \in 1..Len(series) : LeadingZeroString(series[i])

SomeNonEmpty(series) == \E i \in 1..Len(series) : series[i] # <<>>

EveryNonEmptyParses(series) ==
    \A i \in 1..Len(series) : series[i] # <<>> => ParsesAsNumber(series[i])

\* The files of the directory that pd.read_csv reads.
ParsedFiles == {name \in DOMAIN csv_dir : csv_dir[name].parses}

ColumnsOf(name) == 1..Len(csv_dir[name].columns)

\* The blocks of the artifact once the load has written it.
Blocks == table_info_file.blocks
BlockIxs == 1..Len(Blocks)

\* C1: every column recorded by the load has the type the decision rule
\* gives in its order: TEXT when has_leading_zeros, else NUMERIC when
\* can_convert_to_numeric, else TEXT; a column holding a leading-zero digit
\* string is TEXT even when every non-empty value parses as a number.
C1_DecisionOrder ==
    pc = "serving" =>
        \A b \in BlockIxs : \A j \in 1..Len(Blocks[b].columns) :
            LET series == SeriesOf(csv_dir[Blocks[b].table], j)
                kind == Blocks[b].columns[j].kind
            IN  /\ kind = IF has_leading_zeros(series) THEN "TEXT"
                          ELSE IF can_convert_to_numeric(series) THEN "NUMERIC"
                          ELSE "TEXT"
                /\ SomeLeadingZero(series) => kind = "TEXT"

C1_Witness ==
    /\ pc = "serving"
    /\ \E b \in BlockIxs : \E j \in 1..Len(Blocks[b].columns) :
         LET series == SeriesOf(csv_dir[Blocks[b].table], j)
         IN  /\ SomeLeadingZero(series)
             /\ SomeNonEmpty(series) /\ EveryNonEmptyParses(series)
             /\ Blocks[b].columns[j].kind = "TEXT"

\* C4: has_leading_zeros is true of a column exactly when some value is a
\* digit-only string of length >= 2 starting with '0'.
C4_LeadingZerosIff ==
    \A name \in ParsedFiles : \A j \in ColumnsOf(name) :
        LET series == SeriesOf(csv_dir[name], j)
        IN  has_leading_zeros(series) <=> SomeLeadingZero(series)

C4_Witness ==
    /\ pc = "serving"
    /\ \E b \in BlockIxs : \E j \in 1..Len(Blocks[b].columns) :
         LET series == SeriesOf(csv_dir[Blocks[b].table], j)
         IN  /\ \E i \in 1..Len(series) : series[i] = <<"0">>
             /\ \E i \in 1..Len(series) : series[i] = <<"0", ".">>
             /\ ~has_leading_zeros(series)
             /\ Blocks[b].columns[j].kind = "NUMERIC"

\* C5: can_convert_to_numeric is true of a column exactly when it has a
\* non-empty value and every non-empty value parses as a number; a column
\* of empty strings only is not coercible and is recorded as TEXT.
C5_NumericIff ==
    /\ \A name \in ParsedFiles : \A j \in ColumnsOf(name) :
         LET series == SeriesOf(csv_dir[name], j)
         IN  can_convert_to_numeric(series)
                <=> (SomeNonEmpty(series) /\ EveryNonEmptyParses(series))
    /\ pc = "serving" =>
         \A b \in BlockIxs : \A j \in 1..Len(Blocks[b].columns) :
            ~SomeNonEmpty(SeriesOf(csv_dir[Blocks[b].table], j))
                => Blocks[b].columns[j].kind = "TEXT"

C5_Witness ==
    /\ pc = "serving"
    /\ \E b \in BlockIxs : \E j \in 1..Len(Blocks[b].columns) :
         LET series == SeriesOf(csv_dir[Blocks[b].table], j)
         IN  /\ Len(series) = MaxSeries
             /\ ~SomeNonEmpty(series)
             /\ Blocks[b].columns[j].kind = "TEXT"

C3_TextRoundTrip ==
    (response.op = "execute_sql_query" /\ response.kind = "ok") =>
        \A b \in BlockIxs :
            Blocks[b].table = response.query.table =>
                \A j \in 1..Len(Blocks[b].columns) :
                    Blocks[b].columns[j].kind = "TEXT" =>
                        /\ Len(response.rows) = Len(csv_dir[Blocks[b].table].rows)
                        /\ \A i \in 1..Len(response.rows) :
                             response.rows[i][j]
                                = Str(csv_dir[Blocks[b].table].rows[i][j])

C3_Witness ==
    /\ response.op = "execute_sql_query" /\ response.kind = "ok"
    /\ \E b \in BlockIxs :
         /\ Blocks[b].table = response.query.table
         /\ Blocks[b].columns[1].kind = "TEXT"
         /\ \E i \in 1..Len(response.rows) :
              /\ LeadingZeroString(csv_dir[Blocks[b].table].rows[i][1])
              /\ response.rows[i][1] = Str(<<"0", "1">>)

\* C6: a column recorded as numeric is stored with as many rows as the
\* source, in the source's order: an empty string as the missing-value
\* marker, any other string as the number it parses to.
C6_NumericMaterialized ==
    pc = "serving" =>
        \A b \in BlockIxs : \A j \in 1..Len(Blocks[b].columns) :
            Blocks[b].columns[j].kind = "NUMERIC" =>
                LET series == SeriesOf(csv_dir[Blocks[b].table], j)
                    stored == db[LowerStr(Blocks[b].table)].columns[j].values
                IN  /\ Len(stored) = Len(series)
                    /\ \A i \in 1..Len(series) :
                         /\ series[i] = <<>> => stored[i] = NaN
                         /\ series[i] # <<>> =>
                              /\ stored[i].t = "num"
                              /\ stored[i] = ParseNumber(series[i])

C6_Witness ==
    /\ pc = "serving"
    /\ \E b \in BlockIxs :
         /\ Blocks[b].columns[1].kind = "NUMERIC"
         /\ SeriesOf(csv_dir[Blocks[b].table], 1) = << <<"1">>, <<>> >>
         /\ db[LowerStr(Blocks[b].table)].columns[1].values = <<Num(1, 0), NaN>>

\* C7: a query whose first word is not SELECT (blanks and letter case
\* aside) is rejected before the store is tried; only a query whose first
\* word is SELECT reaches the store.
C7_OnlySelectReachesStore ==
    response.op = "execute_sql_query" =>
        LET keyword == leading_keyword(sql_text(response.query))
        IN  /\ keyword # KeywordSelect =>
                 (response.kind = "rejected" /\ response.attempts = 0)
            /\ response.attempts > 0 => keyword = KeywordSelect

\* C8: no tool call changes the store or the artifact, whether the query
\* is rejected, fails or succeeds.
C8_ToolsReadOnly ==
    [][pc = "serving" =>
          /\ db' = db
          /\ table_info_file' = table_info_file]_vars

\* A statement that would drop a loaded table has been put and refused.
C8_Witness ==
    /\ response.op = "execute_sql_query"
    /\ response.kind = "rejected"
    /\ leading_keyword(sql_text(response.query)) = KeywordDrop
    /\ LowerStr(response.query.table) \in DOMAIN db

\* C9: a query that succeeds with R rows and C columns shows the first
\* min(R, 10) rows, in result order, and reports R and C.
C9_RowCap ==
    (response.op = "execute_sql_query" /\ response.kind = "ok") =>
        LET table == db[LowerStr(response.query.table)]
            n == NRows(table.columns)
            c == Len(table.columns)
            cross == response.query.form = "cross"
            R == IF cross THEN n * n ELSE n
            C == IF cross THEN 2 * c ELSE c
            shown == IF R < 10 THEN R ELSE 10
        IN  /\ response.total_rows = R
            /\ response.total_cols = C
            /\ Len(response.rows) = shown
            /\ \A k \in 1..shown :
                 response.rows[k] =
                    IF cross
                    THEN RowOf(table.columns, ((k - 1) \div n) + 1)
                            \o RowOf(table.columns, ((k - 1) % n) + 1)
                    ELSE RowOf(table.columns, k)

C9_Witness ==
    /\ response.op = "execute_sql_query" /\ response.kind = "ok"
    /\ response.total_rows = 16
    /\ response.total_cols = 2
    /\ Len(response.rows) = 10

\* C10: a file pd.read_csv fails on does not end the load.  In SQLite
\* mode every file that loads is among the tables created, and is the
\* table stored under its name when no other file of the scan that gets
\* past pd.read_csv shares that name in the store; in pandas mode every
\* file that reads is a data frame.
Loadable(name) ==
    csv_dir[name].parses /\ ~to_sql_fails(df_final(csv_dir[name]))

SharesStoreName(name) ==
    {other \in ParsedFiles \ {name} : LowerStr(other) = LowerStr(name)}

C10_FailureDoesNotAbort ==
    pc = "serving" =>
        /\ mode = "db" =>
             \A name \in DOMAIN csv_dir :
                Loadable(name) =>
                    /\ \E i \in 1..Len(created_tables) : created_tables[i] = name
                    /\ \E b \in BlockIxs : Blocks[b].table = name
                    /\ SharesStoreName(name) = {} =>
                         /\ LowerStr(name) \in DOMAIN db
                         /\ db[LowerStr(name)] = to_sql(df_final(csv_dir[name]), name)
        /\ mode = "pandas" =>
             \A name \in ParsedFiles :
                /\ name \in DOMAIN dfs
                /\ dfs[name] = read_csv(csv_dir[name])

\* A scan of three files, one of which fails to parse; the other two are
\* loaded (the runs reach this state with the failing file first, second
\* and last).
C10_Witness ==
    /\ pc = "serving" /\ mode = "db"
    /\ Cardinality(DOMAIN csv_dir) = 3
    /\ \E name \in DOMAIN csv_dir : ~csv_dir[name].parses
    /\ Len(created_tables) = 2
    /\ Cardinality(DOMAIN db) = 2

\* The files of the directory the load makes a table of.
LoadableFiles == {name \in DOMAIN csv_dir : Loadable(name)}

\* The names a get_table_names response lists.
ListedNames == {response.names[i] : i \in 1..Len(response.names)}

\* C11: after a load in which some files fail and others succeed,
\* get_table_names lists exactly the files that loaded, and a file that
\* failed leaves no table of its name in the store (a table found under
\* its name is the table of a file of this scan that loaded).
C11_MixedLoadNames ==
    (/\ pc = "serving" /\ response.op = "get_table_names"
     /\ LoadableFiles # {} /\ LoadableFiles # DOMAIN csv_dir) =>
        /\ response.kind = "ok"
        /\ ListedNames = LoadableFiles
        /\ \A name \in DOMAIN csv_dir \ LoadableFiles :
             LowerStr(name) \in DOMAIN db =>
                \E other \in LoadableFiles : LowerStr(other) = LowerStr(name)

\* The names the artifact records.
RecordedNames == {Blocks[b].table : b \in BlockIxs}

\* C12: for every name the artifact does not record (the empty string, a
\* proper beginning of a recorded name and a name with a regular
\* expression character among them) get_table_schema answers "not found",
\* which is not the answer to a failed read, and returns no block.
C12_UnknownNameNotFound ==
    (/\ response.op = "get_table_schema"
     /\ response.table \notin RecordedNames) =>
        /\ response.kind = "not_found"
        /\ response.blocks = <<>>

\* The lines the artifact records for the table of block b, the empty
\* lines that close the block aside.
RecordedText(b) == rstrip(block_lines(Blocks[b]))

\* C13: for every name the artifact records get_table_schema returns the
\* block recorded for that table (header, column count, column lines,
\* sample rows) and no line of another, also when a table whose name
\* begins with the name is recorded before it.
C13_RecordedNameOwnBlock ==
    (/\ response.op = "get_table_schema"
     /\ response.table \in RecordedNames) =>
        /\ response.kind = "ok"
        /\ \E b \in BlockIxs :
             /\ Blocks[b].table = response.table
             /\ response.blocks = RecordedText(b)

\* C14: get_table_names returns the table names of the artifact, each
\* once, in the order in which the scan processed the files, and nothing
\* else (no text of a sample row).
C14_NamesInScanOrder ==
    (pc = "serving" /\ response.op = "get_table_names") =>
        /\ response.kind = "ok"
        /\ response.names = [b \in BlockIxs |-> Blocks[b].table]
        /\ response.names = created_tables
        /\ response.names = SelectSeq(scan, LAMBDA name : Loadable(name))

\* C15: a load over the directory the process before has loaded,
\* unchanged and listed in the same order, leaves what that load left:
\* the same tables with the same rows in the store and the same artifact,
\* hence the same kind for every column.
C15_LoadIdempotent ==
    (pc = "serving" /\ previous.known /\ previous.scan = scan) =>
        /\ db = previous.db
        /\ table_info_file = previous.table_info_file

\* A second load over two files that load and one that fails.
C15_Witness ==
    /\ pc = "serving" /\ previous.known /\ previous.scan = scan
    /\ Len(scan) = 3
    /\ Len(Blocks) = 2
    /\ Cardinality(DOMAIN db) = 2
    /\ db = previous.db
    /\ Blocks = previous.table_info_file.blocks

\* The tables the scan of this process has made.
CreatedTables == {created_tables[i] : i \in 1..Len(created_tables)}

\* C16: after every load, whatever the loads before it and the changes of
\* the directory between them, every table of the store is one the most
\* recent scan has made: no table of an earlier scan whose file is gone
\* or fails now is left.
C16_StoreReplacedWholesale ==
    pc = "serving" =>
        \A key \in DOMAIN db :
            \E name \in CreatedTables :
                /\ LowerStr(name) = key
                /\ db[key] = to_sql(df_final(csv_dir[name]), name)

\* The block a file of the directory gives when it loads.
BlockOf(name) ==
    table_block(name, to_sql(df_final(csv_dir[name]), name),
                df_final(csv_dir[name]), csv_dir[name])

\* The files of the most recent scan that loaded, in the order listed.
LoadedInOrder == SelectSeq(scan, LAMBDA name : Loadable(name))

\* C17: after every load, whatever the loads before it, the artifact holds
\* the blocks of the most recent load, in its order, and nothing an
\* earlier load wrote; it is empty when the most recent load made no table.
C17_ArtifactOverwritten ==
    pc = "serving" =>
        /\ table_info_file.exists
        /\ Blocks = [i \in 1..Len(LoadedInOrder) |-> BlockOf(LoadedInOrder[i])]

\* A load that made no table, after a load that made one (its table is
\* still in the store).
C17_Witness ==
    /\ pc = "serving"
    /\ DOMAIN db # {}
    /\ DOMAIN csv_dir # {}
    /\ LoadedInOrder = <<>>
    /\ table_info_file = [exists |-> TRUE, blocks |-> <<>>]

\* C18: a tool has answered only once the load of its process has run to
\* its end and the artifact is written: every file of the scan has been
\* processed, the artifact holds every block the load gathered, and every
\* file that loads is among the tables created.
C18_NoReadBeforeLoad ==
    response.op # "none" =>
        /\ pc = "serving"
        /\ csv_files = <<>>
        /\ table_info_file.exists
        /\ Blocks = table_info
        /\ CreatedTables = LoadableFiles
        /\ Len(Blocks) = Len(created_tables)

\* A tool has answered after a load over three files.
C18_Witness ==
    /\ pc = "serving" /\ Len(scan) = 3 /\ Len(Blocks) >= 2
    /\ response.op = "get_table_schema"
    /\ response.kind = "ok"

ResponseKinds == {"ok", "not_found", "io_error", "rejected", "error"}

\* C19: no error ends the process, in the load or in a tool: a file that
\* fails, an artifact that cannot be read, an unknown table, a query
\* refused or failing and a store that cannot be opened all end in a
\* logged message or in a response of the tool.
C19_NoFatalError ==
    /\ pc # "crashed"
    /\ response.op # "none" => response.kind \in ResponseKinds

\* C20: in pandas mode a column of a loaded frame whose source holds a
\* digit-only value with a leading zero is kept as text, so that the
\* frame select_dataframe shows has the value with its zeros.
C20_PandasKeepsLeadingZeros ==
    (mode = "pandas" /\ pc = "serving") =>
        \A name \in DOMAIN dfs : \A j \in ColumnsOf(name) :
            LET series == SeriesOf(csv_dir[name], j)
            IN  SomeLeadingZero(series) =>
                    /\ dfs[name][j].type = "object"
                    /\ \A i \in 1..Len(series) :
                         LeadingZeroString(series[i]) =>
                            dfs[name][j].values[i] = Str(series[i])

\* C21: a select_dataframe whose query succeeds with R rows shows the
\* first min(R, 10) rows of the result, and reports R and the number of
\* rows of the frame.
C21_FirstTenRows ==
    (response.op = "select_dataframe" /\ response.kind = "ok") =>
        LET frame == dfs[response.df_name]
            kept == df_query_result(response.df_query, NRows(frame)).kept
            R == Len(kept)
            shown == IF R < 10 THEN R ELSE 10
        IN  /\ response.total_rows = R
            /\ response.original_rows = NRows(frame)
            /\ Len(response.rows) = shown
            /\ \A k \in 1..shown : response.rows[k].index = kept[k] - 1

\* C22: select_dataframe and get_detailed_column_info return a string for
\* every input: the not-found message for an unknown frame, a query error
\* message for a failing query, and an error string for a column list
\* naming a column the frame does not have.
C22_AlwaysAString ==
    response.op \in {"select_dataframe", "get_detailed_column_info"} =>
        /\ response.kind # "raised"
        /\ response.kind = "not_found" <=> response.df_name \notin DOMAIN dfs
        /\ (response.op = "select_dataframe" /\ response.df_name \in DOMAIN dfs) =>
              (response.kind = "query_error" <=>
                 ~df_query_result(response.df_query,
                                  NRows(dfs[response.df_name])).ok)

\* One text inside another.
IsInfix(part, text) ==
    \E i \in 1..(Len(text) - Len(part) + 1) :
        SubSeq(text, i, i + Len(part) - 1) = part

\* C23: a call of execute_sql_query goes to the store at most once, and
\* one whose statement fails returns, after that one attempt, an error
\* line holding the message of the error under it word for word.
C23_OneAttemptVerbatimError ==
    response.op = "execute_sql_query" =>
        /\ response.attempts <= 1
        /\ response.kind = "error" =>
              /\ response.attempts = 1
              /\ ~read_sql_query(db, response.query).ok
              /\ Len(response.blocks) = 1
              /\ response.blocks[1][1] = QueryErrorLabel
              /\ IsInfix(sqlite_message(db, response.query), response.blocks[1])

\* A statement naming a table the store does not have has failed.
C23_Witness ==
    /\ response.op = "execute_sql_query"
    /\ response.kind = "error"
    /\ response.attempts = 1
    /\ LowerStr(response.query.table) \notin DOMAIN db
    /\ leading_keyword(sql_text(response.query)) = KeywordSelect
    /\ IsInfix(<<NoSuchTable>> \o response.query.table, response.blocks[1])

\* The first text opens the second.
IsPrefix(part, text) ==
    Len(part) <= Len(text) /\ SubSeq(text, 1, Len(part)) = part

\* C24: the block of a loaded table of n rows and c columns states the
\* table's name and the count c, has one line per column, in column
\* order, with the column's name and resolved type, and has min(n, 3)
\* sample rows, the first rows of the table made of the file.
C24_BlockDescribesTable ==
    (pc = "serving" /\ mode = "db") =>
        \A b \in BlockIxs :
            LET name  == Blocks[b].table
                file  == csv_dir[name]
                table == to_sql(df_final(file), name)
                lines == block_lines(Blocks[b])
                c == Len(file.columns)
                n == Len(file.rows)
                shown == IF n < SampleRows THEN n ELSE SampleRows
            IN  /\ Loadable(name)
                /\ Len(lines) = 3 + c + 1 + shown + 2
                /\ lines[1] = <<HeaderMark>> \o name
                /\ lines[2] = <<ColumnCountLabel, " ">> \o format_int(c)
                /\ lines[3] = <<ColumnDetailsLabel>>
                /\ \A j \in 1..c :
                      lines[3 + j] =
                         column_line([name |-> file.columns[j],
                                      kind |-> column_type(SeriesOf(file, j)),
                                      sqlite_type |-> table.columns[j].type])
                /\ lines[4 + c] = <<SampleLabel>>
                /\ \A i \in 1..shown :
                      /\ Blocks[b].sample[i] = RowOf(table.columns, i)
                      /\ IsPrefix(<<" ", " ", RowLabel>> \o format_int(i) \o <<":", " ">>
                                     \o file.columns[1] \o <<":", " ">>,
                                  lines[4 + c + i])
                /\ SharesStoreName(name) = {} =>
                      db[LowerStr(name)] = table

\* The artifact holds the block of a table of four rows and that of a
\* table of two columns.
C24_Witness ==
    /\ pc = "serving" /\ mode = "db"
    /\ \E b \in BlockIxs :
          /\ csv_dir[Blocks[b].table] = FourFile
          /\ Len(Blocks[b].sample) = SampleRows
    /\ \E b \in BlockIxs :
          /\ csv_dir[Blocks[b].table] = CodesFile
          /\ Len(Blocks[b].columns) = 2

\* C25: after a load every name listed in the artifact, and every name
\* of the list the load returns, is a table of the store with the
\* columns its block records, and two names listed are two tables; so
\* also when two files have names the store holds to be one.
C25_ListedNamesAreTables ==
    (pc = "serving" /\ mode = "db") =>
        /\ \A b \in BlockIxs :
              /\ LowerStr(Blocks[b].table) \in DOMAIN db
              /\ LET columns == db[LowerStr(Blocks[b].table)].columns
                 IN  /\ Len(columns) = Blocks[b].ncols
                     /\ Len(columns) = Len(Blocks[b].columns)
                     /\ \A j \in 1..Len(columns) :
                           /\ columns[j].name = Blocks[b].columns[j].name
                           /\ columns[j].type = Blocks[b].columns[j].sqlite_type
        /\ \A b1, b2 \in BlockIxs :
              b1 # b2 => LowerStr(Blocks[b1].table) # LowerStr(Blocks[b2].table)
        /\ \A i \in 1..Len(created_tables) :
              LowerStr(created_tables[i]) \in DOMAIN db
        /\ \A i1, i2 \in 1..Len(created_tables) :
              i1 # i2 => LowerStr(created_tables[i1]) # LowerStr(created_tables[i2])

KokkaiTools ==
    {"search_kokkai_speeches", "search_kokkai_meetings", "get_speech_by_id",
     "get_meeting_by_id"}

\* A text argument the caller has given.
Supplied(key) == key \in DOMAIN call.args /\ call.args[key] # <<>>

\* An integer argument the caller has given.
SuppliedNumber(key) == key \in DOMAIN call.args /\ call.args[key] # {}

\* A date written YYYY-MM-DD.
IsYearMonthDay(s) ==
    /\ Len(s) = 10
    /\ s[5] = "-" /\ s[8] = "-"
    /\ \A i \in {1, 2, 3, 4, 6, 7, 9, 10} : s[i] \in DigitChars
    /\ DigitsValue(SubSeq(s, 6, 7)) \in 1..12
    /\ DigitsValue(SubSeq(s, 9, 10))
          \in 1..DaysInMonth(DigitsValue(SubSeq(s, 1, 4)), DigitsValue(SubSeq(s, 6, 7)))

\* What is wrong with the arguments of the call: no search condition
\* given, or a condition given that does not pass its check.
Violations ==
    {v \in {"required"} :
        /\ \A key \in required_text_fields : ~Supplied(key)
        /\ \A key \in required_num_fields : ~SuppliedNumber(key)}
    \cup {v \in {"nameOfHouse"} :
             Supplied(v) /\ call.args[v] \notin VALID_HOUSES}
    \cup {v \in {"speakerRole"} :
             Supplied(v) /\ call.args[v] \notin VALID_SPEAKER_ROLES}
    \cup {v \in {"from", "until"} :
             Supplied(v) /\ ~IsYearMonthDay(call.args[v])}
    \cup {v \in {"sessionFrom", "sessionTo"} :
             SuppliedNumber(v) /\ \E n \in call.args[v] : n \notin 1..999}
    \cup {v \in {"speechID"} :
             Supplied(v) /\ ~_validate_speech_id(call.args[v])}
    \cup {v \in {"issueID"} :
             Supplied(v) /\ ~_validate_issue_id(call.args[v])}

\* C26: a tool of the adapter sends no request unless a search condition
\* is given and every condition given passes its check (the house and
\* the role of their lists, the dates written YYYY-MM-DD, the sessions
\* within 1..999, the IDs of their formats); otherwise it returns a
\* parameter error that lists every violation.
C26_ValidationBeforeRequest ==
    (call.tool \in KokkaiTools /\ call.done) =>
        /\ call.requests # <<>> => Violations = {}
        /\ Violations # {} =>
              /\ call.requests = <<>>
              /\ \/ call.kind = "no_condition" /\ Violations = {"required"}
                 \/ /\ call.kind = "parameter_error"
                    /\ \A v \in Violations :
                          \E i \in 1..Len(call.errors) : call.errors[i] = v

\* C27: whatever integers the caller gives, the request search_kokkai_speeches
\* builds carries maximumRecords within 1..100 and startRecord >= 1, and
\* that of search_kokkai_meetings maximumRecords within 1..10 and
\* startRecord >= 1; neither tool returns the range errors of the two.
C27_RecordsClamped ==
    (/\ call.tool \in {"search_kokkai_speeches", "search_kokkai_meetings"}
     /\ call.done /\ call.kind # "no_condition") =>
        LET most == IF call.tool = "search_kokkai_meetings" THEN 10 ELSE 100
        IN  /\ call.params.num["maximumRecords"] \in 1..most
            /\ call.params.num["startRecord"] >= 1
            /\ \A i \in 1..Len(call.requests) :
                  /\ call.requests[i].query.num["maximumRecords"] \in 1..most
                  /\ call.requests[i].query.num["startRecord"] >= 1
            /\ \A i \in 1..Len(call.errors) :
                  call.errors[i] \notin {"maximumRecords", "startRecord"}

\* A request of each tool sent for a caller that asked for more records
\* than the most, or fewer than one, from a start before the first.
C27_Witness ==
    /\ call.done
    /\ call.requests # <<>>
    /\ \/ /\ call.tool = "search_kokkai_speeches"
          /\ call.args.maximumRecords > 100
          /\ call.args.startRecord < 1
          /\ call.requests[1].query.num["maximumRecords"] = 100
       \/ /\ call.tool = "search_kokkai_meetings"
          /\ call.args.maximumRecords < 1
          /\ call.args.startRecord < 1
          /\ call.requests[1].query.num["maximumRecords"] = 1

\* C28: get_nicovideo_ranking sends no request for a genre or a term it
\* does not know, asks for a page within 1..10, and shows the page it
\* asked for and, for its i-th entry, the rank (p - 1) * 100 + i of that
\* page p, which is at least 1.
C28_RanksOfRequestedPage ==
    (call.tool = "get_nicovideo_ranking" /\ call.done) =>
        /\ (call.args.genre \notin GENRES \/ call.args.term \notin RANKING_TERMS) =>
              call.requests = <<>> /\ call.kind \in {"invalid_genre", "invalid_term"}
        /\ \A r \in 1..Len(call.requests) : call.requests[r].page \in 1..10
        /\ call.kind = "ranking" =>
              LET p == call.requests[1].page
              IN  /\ call.page_shown = p
                  /\ Len(call.ranks) = Len(call.videos)
                  /\ \A i \in 1..Len(call.ranks) :
                        /\ call.ranks[i] = (p - 1) * 100 + i
                        /\ call.ranks[i] >= 1

\* C30: of a ranking of k entries get_genre_popular_videos returns the
\* header and then the first min(k, max(0, min(limit, 100))) entries in
\* the order of their ranks, each of them whole, and no line of an
\* entry after them.
C30_FirstEntriesWhole ==
    (call.tool = "get_genre_popular_videos" /\ call.done /\ call.kind = "ranking") =>
        LET k == Len(call.videos)
            capped == IF call.args.limit < 100 THEN call.args.limit ELSE 100
            most == IF capped > 0 THEN capped ELSE 0
            kept == IF k < most THEN k ELSE most
            expected ==
                ranking_header(call.args.genre, call.args.term, <<>>, 1, k)
                    \o videos_lines(SubSeq(call.videos, 1, kept), 1, 1)
        IN  /\ IsPrefix(expected, call.lines)
            /\ \A i \in (Len(expected) + 1)..Len(call.lines) : call.lines[i] = <<>>

\* C29: for two dates YYYYMMDD analyze_trends makes
\* floor((date_to - date_from) / 30 days) + 1 searches when date_from is
\* not after date_to, and none when it is, returning then an empty trend
\* of total 0, average 0 and no peak month and not an error; the total
\* of the summary is the sum of the counts of the periods.
C29_SearchesAndTotals ==
    (/\ call.tool = "analyze_trends" /\ call.done
     /\ ~strptime_compact(call.args.date_from).raised
     /\ ~strptime_compact(call.args.date_to).raised) =>
        LET from == strptime_compact(call.args.date_from).date
            to   == strptime_compact(call.args.date_to).date
        IN  /\ call.at = "analysis"
            /\ Len(call.requests) =
                  IF from <= to THEN ((to - from) \div 30) + 1 ELSE 0
            /\ Len(call.trend_data) = Len(call.requests)
            /\ from > to =>
                  /\ call.trend_data = <<>>
                  /\ call.summary.total_count = 0
                  /\ call.summary.average_monthly[1] = 0
                  /\ call.summary.peak_month = {}
            /\ call.summary.total_count = sum_counts(call.trend_data)

====
